---- MODULE Spec2Model ----
(***************************************************************************)
(* Verification model of zk-auction: the clearing-price engine             *)
(* (DetermineClearingPrice / HasZeroAtBitPosition / Bidder) and the NIZK   *)
(* OR-proof of bit correctness (GenerateZKProofEij / VerifyZKProofEij).    *)
(***************************************************************************)
EXTENDS Integers, Sequences, FiniteSets, TLC

(***************************************************************************)
(* Bounds of the exploration.                                              *)
(***************************************************************************)
MaxN == 3          \* at most this many bids in the list
MaxL == 2          \* bit lengths 1..MaxL
MaxBid == 3        \* bids are drawn from MinBid..MaxBid
MaxSeed == 1       \* each bidder draws its secrets from one of the streams 0..MaxSeed

MinBid == -1       \* one negative bid value is part of the inputs

\* Go's nil (no value): *big.Int results are never negative in this code
Nil == -1

(***************************************************************************)
(* Group parameters of the engine (package bidreveal, init).               *)
(***************************************************************************)
EngineP == 2039
EngineQ == 1019
EngineG == 9
EngineH == 461

systemParams == [G |-> EngineG, H |-> EngineH, P |-> EngineP, Q |-> EngineQ]

(***************************************************************************)
(* math/big primitives used by the code.                                   *)
(***************************************************************************)
RECURSIVE Pow2(_)
Pow2(k) == IF k <= 0 THEN 1 ELSE 2 * Pow2(k - 1)

\* big.Int.Exp(b, e, m) for e >= 0, m > 0: square and multiply
RECURSIVE ModExp(_, _, _)
ModExp(b, e, m) ==
    IF e = 0 THEN 1 % m
    ELSE LET half == ModExp(b, e \div 2, m)
             sq   == (half * half) % m
         IN IF e % 2 = 1 THEN (sq * (b % m)) % m ELSE sq

\* extended Euclid: <<gcd, x, y>> with a*x + b*y = gcd
RECURSIVE EGcd(_, _)
EGcd(a, b) ==
    IF b = 0 THEN <<a, 1, 0>>
    ELSE LET r == EGcd(b, a % b)
         IN <<r[1], r[3], r[2] - (a \div b) * r[3]>>

\* big.Int.ModInverse(b, m): the inverse in [0, m), or nil when gcd(b, m) # 1
ModInverse(b, m) ==
    LET r == EGcd(b % m, m)
    IN IF r[1] # 1 THEN Nil ELSE r[2] % m

MulMod(a, b, mod) == (a * b) % mod

\* the division without the test of the inverse
DivMod_NoCheck(a, b, mod) == MulMod(a, ModInverse(b, mod), mod)

\* utils.DivMod: panics when b has no inverse; the panic is the value Nil here
DivMod(a, b, mod) ==
    LET bInv == ModInverse(b, mod)
    IN IF bInv = Nil THEN Nil ELSE MulMod(a, bInv, mod)

(***************************************************************************)
(* Go's int: a two's-complement word of IntBits bits, here a function from *)
(* the bit index (0 the least significant) to 0 or 1.  The integers handed *)
(* to and returned by the conversions in this model are below 2^SmallBits  *)
(* in absolute value, so the bits from SmallBits up copy the sign.         *)
(***************************************************************************)
IntBits == 64
SmallBits == 30

\* the weights of the bits below SmallBits
Weight == [k \in 0..SmallBits |-> Pow2(k)]

ToWord(value) ==
    [k \in 0..(IntBits - 1) |->
        IF k < SmallBits THEN (value \div Weight[k]) % 2
        ELSE IF value < 0 THEN 1 ELSE 0]

RECURSIVE LowValue(_, _)
\* the number written by the bits k .. SmallBits-1 of word w, bit k counting 1
LowValue(w, k) == IF k >= SmallBits THEN 0 ELSE w[k] + 2 * LowValue(w, k + 1)

FromWord(w) == LowValue(w, 0) - (IF w[IntBits - 1] = 1 THEN Pow2(SmallBits) ELSE 0)

\* result <<= 1: the top bit is dropped
ShiftLeft(w) == [k \in 0..(IntBits - 1) |-> IF k = 0 THEN 0 ELSE w[k - 1]]

\* value >>= 1 on a signed int: the sign bit is kept
ShiftRight(w) ==
    [k \in 0..(IntBits - 1) |-> IF k = IntBits - 1 THEN w[k] ELSE w[k + 1]]

(***************************************************************************)
(* utils.IntToBits / utils.BitsToInt.  Bit sequences are functions on      *)
(* 0..L-1, index 0 the most significant bit.                               *)
(***************************************************************************)
\* the IntToBits loop from index i down to 0 on the word `value`
RECURSIVE IntToBitsFrom(_, _, _)
IntToBitsFrom(value, bits, i) ==
    IF i < 0 THEN bits
    ELSE IntToBitsFrom(ShiftRight(value), [bits EXCEPT ![i] = value[0]], i - 1)

\* the same loop writing the bits least significant first
IntToBitsWord_LsbFirst(value, bitLength) ==
    [i \in 0..(bitLength - 1) |-> IF i < IntBits THEN value[i] ELSE value[IntBits - 1]]

\* IntToBits on the word of its argument
IntToBitsWord(value, bitLength) ==
    IntToBitsFrom(value, [i \in 0..(bitLength - 1) |-> 0], bitLength - 1)

IntToBits(value, bitLength) == IntToBitsWord(ToWord(value), bitLength)

\* the BitsToInt loop from index k on, `result` the word so far
RECURSIVE BitsToIntFrom(_, _, _, _)
BitsToIntFrom(bits, len, k, result) ==
    IF k >= len THEN result
    ELSE BitsToIntFrom(bits, len, k + 1,
                       IF bits[k] = 1 THEN [ShiftLeft(result) EXCEPT ![0] = 1]
                       ELSE ShiftLeft(result))

\* BitsToInt, its result as a word
BitsToIntWord(bits, len) == BitsToIntFrom(bits, len, 0, ToWord(0))

BitsToInt(bits, len) == FromWord(BitsToIntWord(bits, len))

RECURSIVE MinOf(_, _)
MinOf(f, n) == IF n = 1 THEN f[0]
               ELSE LET m == MinOf(f, n - 1)
                    IN IF f[n - 1] < m THEN f[n - 1] ELSE m

(***************************************************************************)
(* Group parameters of the proof tests (setupTestParams) and the parameter *)
(* records a caller passes to the proof functions.                         *)
(***************************************************************************)
TestP == 23
TestQ == 11
TestG == 5
TestH == 7

setupTestParams == [G |-> TestG, H |-> TestH, P |-> TestP, Q |-> TestQ]

ParamChoices == {systemParams, setupTestParams}

\* GroupParameters invariant: g and h lie in the subgroup of order q
ValidGroup(params) ==
    /\ (params.P - 1) % params.Q = 0
    /\ params.G % params.P # 1
    /\ params.H % params.P # 1
    /\ ModExp(params.G, params.Q, params.P) = 1
    /\ ModExp(params.H, params.Q, params.P) = 1

\* computeCommitment: C = g^m * h^r mod p
computeCommitment(params, message, randomness) ==
    (ModExp(params.G, message, params.P) * ModExp(params.H, randomness, params.P))
        % params.P

(***************************************************************************)
(* computeChallenge.  The hasher is fed the big-endian bytes of each value *)
(* one after the other, then the single byte byte(j); the digest is        *)
(* reduced modulo q.  SHA-256 itself is a table `orc` from the byte string *)
(* written to the hasher to the reduced digest.                            *)
(***************************************************************************)
ByteRange == 256

\* big.Int.Bytes(): big-endian, no leading zero byte, empty for 0
RECURSIVE Bytes(_)
Bytes(x) == IF x = 0 THEN <<>> ELSE Append(Bytes(x \div ByteRange), x % ByteRange)

\* the hasher input without the value e_ij
HashInput_NoEij(params, C_i, e_ij, a1, a2, pos) ==
    Bytes(params.G) \o Bytes(params.H) \o Bytes(C_i)
        \o Bytes(a1) \o Bytes(a2) \o <<pos % ByteRange>>

HashInput(params, C_i, e_ij, a1, a2, pos) ==
    Bytes(params.G) \o Bytes(params.H) \o Bytes(C_i) \o Bytes(e_ij)
        \o Bytes(a1) \o Bytes(a2) \o <<pos % ByteRange>>

computeChallenge(orc, params, C_i, e_ij, a1, a2, pos) ==
    orc[HashInput(params, C_i, e_ij, a1, a2, pos)] % params.Q

ErrInvalidBitValue == "ZK Proof Error: bit value must be 0 or 1"
NoError == "nil"

NilProof == [C1 |-> Nil, C2 |-> Nil, Z1 |-> Nil, Z2 |-> Nil,
             W |-> Nil, V |-> Nil, A1 |-> Nil, A2 |-> Nil]

\* g^a * h^b mod p
GH(params, a, b) ==
    (ModExp(params.G, a, params.P) * ModExp(params.H, b, params.P)) % params.P

\* e_ij / g
EijDivG(params, e_ij) == (e_ij * ModInverse(params.G, params.P)) % params.P

(***************************************************************************)
(* GenerateZKProofEij.  rnd holds the values drawn by randBigInt: alpha,   *)
(* beta, w, v and the challenge cf of the simulated branch.  Commitments   *)
(* gives (a1, a2), which the hash needs before the responses exist.        *)
(***************************************************************************)
\* x * y^{-1} mod p as the code writes it: ModInverse, then Mul and Mod.
\* A nil inverse makes the Mul dereference nil; that panic is the value Nil.
MulInverse(x, y, p) ==
    LET yInv == ModInverse(y, p)
    IN IF yInv = Nil THEN Nil ELSE (x * yInv) % p

Commitments(params, e_ij, b_ij, rnd) ==
    IF b_ij = 0
    THEN LET eijDivGc2 == ModExp(EijDivG(params, e_ij), rnd.cf, params.P)
         IN [a1 |-> GH(params, rnd.alpha, rnd.beta),
             a2 |-> MulInverse(GH(params, rnd.w, rnd.v), eijDivGc2, params.P)]
    ELSE LET eijc1 == ModExp(e_ij, rnd.cf, params.P)
         IN [a1 |-> MulInverse(GH(params, rnd.w, rnd.v), eijc1, params.P),
             a2 |-> GH(params, rnd.alpha, rnd.beta)]

Panicked == "panic"

\* the bit-0 branch (real first equation, simulated second equation)
ProofBit0(orc, params, C_i, e_ij, t_ij, s_ij, pos, rnd) ==
    LET a  == Commitments(params, e_ij, 0, rnd)
        c  == computeChallenge(orc, params, C_i, e_ij, a.a1, a.a2, pos)
        c2 == rnd.cf
        c1 == (c - c2) % params.Q
    IN IF a.a2 = Nil THEN [proof |-> NilProof, err |-> Panicked]
       ELSE [proof |-> [C1 |-> c1, C2 |-> c2,
                        Z1 |-> (c1 * t_ij + rnd.alpha) % params.Q,
                        Z2 |-> (c1 * s_ij + rnd.beta) % params.Q,
                        W |-> rnd.w, V |-> rnd.v,
                        A1 |-> a.a1, A2 |-> a.a2],
             err |-> NoError]

\* the bit-1 branch (simulated first equation, real second equation)
ProofBit1(orc, params, C_i, e_ij, t_ij, s_ij, pos, rnd) ==
    LET a  == Commitments(params, e_ij, 1, rnd)
        c  == computeChallenge(orc, params, C_i, e_ij, a.a1, a.a2, pos)
        c1 == rnd.cf
        c2 == (c - c1) % params.Q
    IN IF a.a1 = Nil THEN [proof |-> NilProof, err |-> Panicked]
       ELSE [proof |-> [C1 |-> c1, C2 |-> c2,
                        Z1 |-> (c2 * t_ij + rnd.alpha) % params.Q,
                        Z2 |-> (c2 * s_ij + rnd.beta) % params.Q,
                        W |-> rnd.w, V |-> rnd.v,
                        A1 |-> a.a1, A2 |-> a.a2],
             err |-> NoError]

\* the same with the second response formed from t_ij in the bit-0 branch
GenerateZKProofEij_RespT(orc, params, C_i, e_ij, t_ij, s_ij, b_ij, pos, rnd) ==
    IF b_ij = 0 THEN ProofBit0(orc, params, C_i, e_ij, t_ij, t_ij, pos, rnd)
    ELSE IF b_ij = 1 THEN ProofBit1(orc, params, C_i, e_ij, t_ij, s_ij, pos, rnd)
    ELSE [proof |-> NilProof, err |-> ErrInvalidBitValue]

\* the same without the final else: every bit other than 0 takes the bit-1 branch
GenerateZKProofEij_NoElse(orc, params, C_i, e_ij, t_ij, s_ij, b_ij, pos, rnd) ==
    IF b_ij = 0 THEN ProofBit0(orc, params, C_i, e_ij, t_ij, s_ij, pos, rnd)
    ELSE ProofBit1(orc, params, C_i, e_ij, t_ij, s_ij, pos, rnd)

GenerateZKProofEij(orc, params, C_i, e_ij, t_ij, s_ij, b_ij, pos, rnd) ==
    IF b_ij = 0 THEN ProofBit0(orc, params, C_i, e_ij, t_ij, s_ij, pos, rnd)
    ELSE IF b_ij = 1 THEN ProofBit1(orc, params, C_i, e_ij, t_ij, s_ij, pos, rnd)
    ELSE [proof |-> NilProof, err |-> ErrInvalidBitValue]

(***************************************************************************)
(* VerifyZKProofEij: the three checks in the order of the code.            *)
(***************************************************************************)
ChallengeCheck(orc, params, C_i, e_ij, proof, pos) ==
    (proof.C1 + proof.C2) % params.Q
        = computeChallenge(orc, params, C_i, e_ij, proof.A1, proof.A2, pos)

Equation1(params, e_ij, proof) ==
    GH(params, proof.Z1, proof.Z2)
        = (ModExp(e_ij, proof.C1, params.P) * proof.A1) % params.P

Equation2(params, e_ij, proof) ==
    GH(params, proof.W, proof.V)
        = (ModExp(EijDivG(params, e_ij), proof.C2, params.P) * proof.A2) % params.P

\* the verifier without its third check
VerifyZKProofEij_NoEquation2(orc, params, C_i, e_ij, proof, pos) ==
    IF ~ChallengeCheck(orc, params, C_i, e_ij, proof, pos) THEN FALSE
    ELSE IF ~Equation1(params, e_ij, proof) THEN FALSE
    ELSE TRUE

VerifyZKProofEij(orc, params, C_i, e_ij, proof, pos) ==
    IF ~ChallengeCheck(orc, params, C_i, e_ij, proof, pos) THEN FALSE
    ELSE IF ~Equation1(params, e_ij, proof) THEN FALSE
    ELSE IF ~Equation2(params, e_ij, proof) THEN FALSE
    ELSE TRUE

(***************************************************************************)
(* State.                                                                  *)
(***************************************************************************)
VARIABLES
    bids,               \* input: the bid list, a function on 0..n-1
    bitLength,          \* input: the declared bit length
    bidders,            \* []*Bidder, a function on 0..n-1
    j,                  \* loop index of the round loop
    clearingPriceBits,  \* []int of length l
    pc,                 \* position in DetermineClearingPrice
    ret,                \* the returned clearing price (Nil until return)
    hz,                 \* the frame of a call of HasZeroAtBitPosition run step by step
    zkParams,           \* *SystemParams handed to the proof functions
    zkIn,               \* arguments of GenerateZKProofEij
    zkOut,              \* its results (*ZKProofEij, error)
    oracle,             \* digests computed so far, by hasher input
    zkVerify,           \* arguments and result of VerifyZKProofEij
    zkpc,               \* position of the prover / verifier exchange
    conv,               \* a caller of IntToBits / BitsToInt: arguments and results
    div,                \* a caller of DivMod: arguments and result
    auction,            \* storage of the Auction contract
    balance,            \* ether held by the Auction contract
    rejecting,          \* the accounts that reject a transfer of ether
    tx,                 \* the last call of the contract and its outcome
    ledger              \* history of the contract: commitments submitted, refunds paid

engineVars == <<bids, bitLength, bidders, j, clearingPriceBits, pc, ret, hz>>
zkVars == <<zkParams, zkIn, zkOut, oracle, zkVerify, zkpc>>
utilVars == <<conv, div>>
auctionVars == <<auction, balance, rejecting, tx, ledger>>
vars == <<bids, bitLength, bidders, j, clearingPriceBits, pc, ret, hz,
          zkParams, zkIn, zkOut, oracle, zkVerify, zkpc, conv, div,
          auction, balance, rejecting, tx, ledger>>

NumBids == Cardinality(DOMAIN bids)

\* utils.RandBigInt(max): the value returned by the k-th draw of the run
\* (k counts from 0 in program order) on the sample stream `seed`.  Stream 0
\* returns 0 throughout; the others return seed, 2*seed, 3*seed, ... mod max.
RandBigInt(seed, k, max) == (seed * (k + 1)) % max

\* the secrets NewBidder draws for bidder id: x at even, s at odd draws
DrawnX(seed, id, bl) ==
    [k \in 0..(bl - 1) |-> RandBigInt(seed, 2 * (id * bl + k), systemParams.Q)]

DrawnS(seed, id, bl) ==
    [k \in 0..(bl - 1) |-> RandBigInt(seed, 2 * (id * bl + k) + 1, systemParams.Q)]

BidLists == UNION {[0..(n - 1) -> MinBid..MaxBid] : n \in 0..MaxN}

(***************************************************************************)
(* NewBidder: the record built for bid `bid` with the drawn secrets xs, ss *)
(* (functions on 0..bitLength-1).                                          *)
(***************************************************************************)
\* the same record with the secrets themselves stored as the public keys
NewBidder_RawKey(bid, id, bl, n, xs, ss) ==
    [ID |-> id,
     Bid |-> bid,
     BinaryBid |-> IntToBits(bid, bl),
     PrivateBitPairs |-> [k \in 0..(bl - 1) |-> [X |-> xs[k], S |-> ss[k]]],
     PublicBitPairs |-> [k \in 0..(bl - 1) |-> [X |-> xs[k], S |-> ss[k]]],
     IsLost |-> FALSE,
     Ti |-> [k \in 0..(bl - 1) |-> Nil],
     L |-> bl,
     N |-> n]

NewBidder(bid, id, bl, n, xs, ss) ==
    [ID |-> id,
     Bid |-> bid,
     BinaryBid |-> IntToBits(bid, bl),
     PrivateBitPairs |-> [k \in 0..(bl - 1) |-> [X |-> xs[k], S |-> ss[k]]],
     PublicBitPairs |-> [k \in 0..(bl - 1) |->
                            [X |-> ModExp(systemParams.G, xs[k], systemParams.P),
                             S |-> ModExp(systemParams.G, ss[k], systemParams.P)]],
     IsLost |-> FALSE,
     Ti |-> [k \in 0..(bl - 1) |-> Nil],
     L |-> bl,
     N |-> n]

RECURSIVE ProdX(_, _, _, _)
\* product of publicXs[k][col] for k in lo..hi-1, modulo P, by MulMod
ProdX(publicXs, col, lo, hi) ==
    IF lo >= hi THEN 1
    ELSE MulMod(ProdX(publicXs, col, lo, hi - 1), publicXs[hi - 1][col], systemParams.P)

\* ComputeTi with the second loop starting at b.ID
ComputeTi_OwnKey(b, publicXs) ==
    [col \in 0..(b.L - 1) |->
        LET preProd  == ProdX(publicXs, col, 0, b.ID)
            postProd == ProdX(publicXs, col, b.ID, b.N)
        IN DivMod(preProd, postProd, systemParams.P)]

\* ComputeTi without the division
ComputeTi_NoPost(b, publicXs) ==
    [col \in 0..(b.L - 1) |-> ProdX(publicXs, col, 0, b.ID)]

\* Bidder.ComputeTi: the Ti array of bidder b
ComputeTi(b, publicXs) ==
    [col \in 0..(b.L - 1) |->
        LET preProd  == ProdX(publicXs, col, 0, b.ID)
            postProd == ProdX(publicXs, col, b.ID + 1, b.N)
        IN DivMod(preProd, postProd, systemParams.P)]

(***************************************************************************)
(* HasZeroAtBitPosition (part_000): the published term of bidder i at      *)
(* position col, the aggregate, and the elimination.                       *)
(***************************************************************************)
\* the term chosen by the bit alone
PublishedTerm_IgnoreLost(bs, i, col) ==
    IF bs[i].BinaryBid[col] = 0
    THEN ModExp(bs[i].Ti[col], bs[i].PrivateBitPairs[col].S, systemParams.P)
    ELSE ModExp(bs[i].Ti[col], bs[i].PrivateBitPairs[col].X, systemParams.P)

PublishedTerm(bs, i, col) ==
    LET b_ij == bs[i].BinaryBid[col]
        x_ij == bs[i].PrivateBitPairs[col].X
        s_ij == bs[i].PrivateBitPairs[col].S
    IN IF b_ij = 0 /\ ~bs[i].IsLost
       THEN ModExp(bs[i].Ti[col], s_ij, systemParams.P)
       ELSE ModExp(bs[i].Ti[col], x_ij, systemParams.P)

RECURSIVE EProduct(_, _, _)
EProduct(bs, col, n) ==
    IF n = 0 THEN 1
    ELSE MulMod(EProduct(bs, col, n - 1), PublishedTerm(bs, n - 1, col), systemParams.P)

HasZero(bs, col) == EProduct(bs, col, Cardinality(DOMAIN bs)) # 1

\* the elimination written as an assignment of the bit to the flag
Eliminate_Assign(bs, col) ==
    [i \in DOMAIN bs |-> [bs[i] EXCEPT !.IsLost = (bs[i].BinaryBid[col] = 1)]]

\* the elimination testing b_ij == 0
Eliminate_BitZero(bs, col) ==
    [i \in DOMAIN bs |->
        IF bs[i].BinaryBid[col] = 0 THEN [bs[i] EXCEPT !.IsLost = TRUE] ELSE bs[i]]

Eliminate(bs, col) ==
    [i \in DOMAIN bs |->
        IF bs[i].BinaryBid[col] = 1 THEN [bs[i] EXCEPT !.IsLost = TRUE] ELSE bs[i]]

DebugBitPosition == 12

\* lines 43-46: the bidders built from the bid list, bidder i drawing its
\* secrets from stream seeds[i]
Constructed(bs, bl, seeds) ==
    [i \in DOMAIN bs |->
        NewBidder(bs[i], i, bl, Cardinality(DOMAIN bs),
                  DrawnX(seeds[i], i, bl), DrawnS(seeds[i], i, bl))]

\* lines 53-68: PubXs collected from every bidder, then ComputeTi on each
WithTi(bs) ==
    LET PubXs == [i \in DOMAIN bs |->
                    [col \in 0..(bs[i].L - 1) |-> bs[i].PublicBitPairs[col].X]]
    IN [i \in DOMAIN bs |-> [bs[i] EXCEPT !.Ti = ComputeTi(bs[i], PubXs)]]

\* some division in ComputeTi had no inverse
TiPanics(bs) == \E i \in DOMAIN bs : \E col \in 0..(bs[i].L - 1) : bs[i].Ti[col] = Nil

\* lines 69-77: the rounds col, col + 1, ..., bl - 1 run on bidders bs with the
\* decided bits so far
RECURSIVE RunRounds(_, _, _, _)
RunRounds(bs, bits, col, bl) ==
    IF col >= bl THEN [bidders |-> bs, bits |-> bits, panic |-> FALSE]
    ELSE IF col >= DebugBitPosition /\ Cardinality(DOMAIN bs) < 3
    THEN [bidders |-> bs, bits |-> bits, panic |-> TRUE]
    ELSE LET hasZero == HasZero(bs, col)
         IN RunRounds(IF hasZero THEN Eliminate(bs, col) ELSE bs,
                      [bits EXCEPT ![col] = IF hasZero THEN 0 ELSE 1],
                      col + 1, bl)

\* a whole call of DetermineClearingPrice on a non-empty bid list with the
\* secrets of the streams seeds: the final bidders, the decided bits, and
\* whether the call panicked
RunOf(bs, bl, seeds) ==
    LET withTi == WithTi(Constructed(bs, bl, seeds))
    IN IF TiPanics(withTi)
       THEN [bidders |-> withTi, bits |-> [col \in 0..(bl - 1) |-> 0], panic |-> TRUE]
       ELSE RunRounds(withTi, [col \in 0..(bl - 1) |-> 0], 0, bl)

NoInput == [C |-> Nil, e |-> Nil, t |-> Nil, s |-> Nil, b |-> Nil, pos |-> Nil]
NoOutput == [proof |-> NilProof, err |-> NoError]
NoVerify == [e |-> Nil, pos |-> Nil, ok |-> FALSE]

\* the proof subsystem is not in use
ZKOff ==
    /\ zkParams = systemParams
    /\ zkIn = NoInput
    /\ zkOut = NoOutput
    /\ oracle = <<>>
    /\ zkVerify = NoVerify
    /\ zkpc = "off"

NoConv == [pc |-> "off", origin |-> "none", steps |-> 0, len |-> 0,
           word |-> <<>>, bits |-> <<>>, value0 |-> 0, bits0 |-> <<>>]
NoDiv == [pc |-> "off", a |-> 0, b |-> 0, mod |-> 1, result |-> Nil]

\* the utility functions are not being called
UtilOff == conv = NoConv /\ div = NoDiv

NoAuction == [deployed |-> FALSE]
NoTx == [fn |-> "none"]
NoLedger == [deployed |-> FALSE]

\* no Auction contract is deployed
AuctionOff ==
    /\ auction = NoAuction
    /\ balance = 0
    /\ rejecting = {}
    /\ tx = NoTx
    /\ ledger = NoLedger

\* no call of HasZeroAtBitPosition is being followed step by step
NoFrame == [pc |-> "idle", i |-> 0, eProduct |-> 1, hasZero |-> FALSE,
            terms |-> <<>>, flags0 |-> <<>>]

\* the engine is not in use
EngineOff ==
    /\ bids = <<>>
    /\ bitLength = 0
    /\ bidders = <<>>
    /\ j = 0
    /\ clearingPriceBits = <<>>
    /\ pc = "off"
    /\ ret = Nil
    /\ hz = NoFrame

(***************************************************************************)
(* DetermineClearingPrice (part_000) as a state machine.                   *)
(***************************************************************************)
Init ==
    /\ bids \in BidLists
    /\ bitLength \in 1..MaxL
    /\ bidders = <<>>
    /\ j = 0
    /\ clearingPriceBits = <<>>
    /\ pc = "start"
    /\ ret = Nil
    /\ hz = NoFrame
    /\ ZKOff
    /\ UtilOff
    /\ AuctionOff

\* lines 43-46: one NewBidder per bid, each drawing its secrets
Construct ==
    /\ pc = "start"
    /\ \E seeds \in [DOMAIN bids -> 0..MaxSeed] :
          bidders' = Constructed(bids, bitLength, seeds)
    /\ pc' = "constructed"
    /\ UNCHANGED <<bids, bitLength, hz, j, clearingPriceBits, ret>>
    /\ UNCHANGED <<zkVars, utilVars, auctionVars>>

\* lines 47-68: the print of bidders[0], the n == 0 return, PubXs, ComputeTi
Setup ==
    /\ pc = "constructed"
    /\ IF DOMAIN bidders = {}
       THEN \* line 47 indexes bidders[0] of an empty slice: runtime panic
            /\ pc' = "panic"
            /\ UNCHANGED <<bidders, clearingPriceBits, ret>>
       ELSE IF NumBids = 0
       THEN /\ pc' = "done"
            /\ ret' = 0
            /\ UNCHANGED <<bidders, clearingPriceBits>>
       ELSE LET withTi == WithTi(bidders)
            IN IF TiPanics(withTi)
               THEN /\ pc' = "panic"
                    /\ UNCHANGED <<bidders, clearingPriceBits, ret>>
               ELSE /\ bidders' = withTi
                    /\ clearingPriceBits' = [col \in 0..(bitLength - 1) |-> 0]
                    /\ pc' = "rounds"
                    /\ UNCHANGED ret
    /\ UNCHANGED <<bids, bitLength, hz, j>>
    /\ UNCHANGED <<zkVars, utilVars, auctionVars>>

\* lines 69-77: one iteration of the round loop, HasZeroAtBitPosition included
Round ==
    /\ pc = "rounds"
    /\ j < bitLength
    /\ IF j >= DebugBitPosition /\ NumBids < 3
       THEN \* line 88 indexes bidders[1], bidders[2]
            /\ pc' = "panic"
            /\ UNCHANGED <<bidders, clearingPriceBits, j>>
       ELSE LET hasZero == HasZero(bidders, j)
            IN /\ bidders' = IF hasZero THEN Eliminate(bidders, j) ELSE bidders
               /\ clearingPriceBits' =
                     [clearingPriceBits EXCEPT ![j] = IF hasZero THEN 0 ELSE 1]
               /\ j' = j + 1
               /\ pc' = "rounds"
    /\ UNCHANGED <<bids, bitLength, hz, ret>>
    /\ UNCHANGED <<zkVars, utilVars, auctionVars>>

\* line 78
Return ==
    /\ pc = "rounds"
    /\ j >= bitLength
    /\ ret' = BitsToInt(clearingPriceBits, bitLength)
    /\ pc' = "done"
    /\ UNCHANGED <<bids, bitLength, hz, bidders, j, clearingPriceBits>>
    /\ UNCHANGED <<zkVars, utilVars, auctionVars>>

Next == Construct \/ Setup \/ Round \/ Return

Spec == Init /\ [][Next]_vars

(***************************************************************************)
(* The same call with a long bit length: one past the position of the      *)
(* print at line 87, and the width of int.  The bids are 0 and 1.          *)
(***************************************************************************)
LongLengths == {DebugBitPosition + 1, IntBits}

LongBidLists == UNION {[0..(n - 1) -> {0, 1}] : n \in 1..3}

InitLong ==
    /\ bids \in LongBidLists
    /\ bitLength \in LongLengths
    /\ bidders = <<>>
    /\ j = 0
    /\ clearingPriceBits = <<>>
    /\ pc = "start"
    /\ ret = Nil
    /\ hz = NoFrame
    /\ ZKOff
    /\ UtilOff
    /\ AuctionOff

SpecLong == InitLong /\ [][Next]_vars

(***************************************************************************)
(* DetermineClearingPrice with HasZeroAtBitPosition run one loop iteration *)
(* at a time.  hz is the frame of the call: the loop index i, eProduct,    *)
(* hasZero, and for the properties the terms multiplied so far and the     *)
(* IsLost flags as they stood when the call was entered.                   *)
(***************************************************************************)
StepBidLists == UNION {[0..(n - 1) -> MinBid..MaxBid] : n \in 1..3}

InitSteps ==
    /\ bids \in StepBidLists
    /\ bitLength \in 1..MaxL
    /\ bidders = <<>>
    /\ j = 0
    /\ clearingPriceBits = <<>>
    /\ pc = "start"
    /\ ret = Nil
    /\ hz = NoFrame
    /\ ZKOff
    /\ UtilOff
    /\ AuctionOff

\* the test of the first loop written i < 1
TermsLeft_FirstOnly(f, n) == f.i < 1 /\ f.i < n

\* the test i < n of the loop of line 93
TermsLeft(f, n) == f.i < n

\* lines 70, 82-91: the call is entered
Enter ==
    /\ pc = "rounds"
    /\ j < bitLength
    /\ hz.pc = "idle"
    /\ IF j >= DebugBitPosition /\ NumBids < 3
       THEN /\ pc' = "panic"
            /\ UNCHANGED hz
       ELSE /\ hz' = [pc |-> "terms", i |-> 0, eProduct |-> 1, hasZero |-> FALSE,
                      terms |-> <<>>,
                      flags0 |-> [i \in DOMAIN bidders |-> bidders[i].IsLost]]
            /\ UNCHANGED pc
    /\ UNCHANGED <<bids, bitLength, bidders, j, clearingPriceBits, ret>>
    /\ UNCHANGED <<zkVars, utilVars, auctionVars>>

\* lines 93-105: one iteration of the first loop
Term ==
    /\ hz.pc = "terms"
    /\ TermsLeft(hz, NumBids)
    /\ LET e_ij == PublishedTerm(bidders, hz.i, j)
       IN hz' = [hz EXCEPT
                   !.eProduct = MulMod(hz.eProduct, e_ij, systemParams.P),
                   !.terms = [k \in 0..hz.i |-> IF k < hz.i THEN hz.terms[k] ELSE e_ij],
                   !.i = hz.i + 1]
    /\ UNCHANGED <<bids, bitLength, bidders, j, clearingPriceBits, pc, ret>>
    /\ UNCHANGED <<zkVars, utilVars, auctionVars>>

\* lines 107-109: the first loop is over, eProduct is compared with 1
Decide ==
    /\ hz.pc = "terms"
    /\ ~TermsLeft(hz, NumBids)
    /\ hz' = IF hz.eProduct # 1
             THEN [hz EXCEPT !.pc = "eliminate", !.hasZero = TRUE, !.i = 0]
             ELSE [hz EXCEPT !.pc = "return"]
    /\ UNCHANGED <<bids, bitLength, bidders, j, clearingPriceBits, pc, ret>>
    /\ UNCHANGED <<zkVars, utilVars, auctionVars>>

\* the test of the second loop written without its condition
BitIsOne_Always(b, col) == TRUE

\* line 112: b_ij == 1
BitIsOne(b, col) == b.BinaryBid[col] = 1

\* lines 110-115: one iteration of the second loop
Mark ==
    /\ hz.pc = "eliminate"
    /\ hz.i < NumBids
    /\ bidders' = IF BitIsOne(bidders[hz.i], j)
                  THEN [bidders EXCEPT ![hz.i].IsLost = TRUE]
                  ELSE bidders
    /\ hz' = [hz EXCEPT !.i = hz.i + 1]
    /\ UNCHANGED <<bids, bitLength, j, clearingPriceBits, pc, ret>>
    /\ UNCHANGED <<zkVars, utilVars, auctionVars>>

\* line 118 and lines 71-76: the call returns, the bit is written, j++
Leave ==
    /\ \/ hz.pc = "eliminate" /\ hz.i >= NumBids
       \/ hz.pc = "return"
    /\ clearingPriceBits' = [clearingPriceBits EXCEPT ![j] = IF hz.hasZero THEN 0 ELSE 1]
    /\ j' = j + 1
    /\ hz' = NoFrame
    /\ UNCHANGED <<bids, bitLength, bidders, pc, ret>>
    /\ UNCHANGED <<zkVars, utilVars, auctionVars>>

NextSteps == Construct \/ Setup \/ Enter \/ Term \/ Decide \/ Mark \/ Leave \/ Return

SpecSteps == InitSteps /\ [][NextSteps]_vars

(***************************************************************************)
(* DetermineClearingPrice / HasZeroAtBitPosition of bid-reveal.go: the     *)
(* group parameters of that file, T_ij as the product of all X_kj divided  *)
(* by X_ij, and an aggregate equal to 1 read as "has zero".  The state of  *)
(* bidder i (binaryBids[i], privateBitPairs[i], publicBitPairs[i],         *)
(* tijs[i], isLostBidder[i]) is one record of `bidders`.                   *)
(***************************************************************************)
RevealP == 23
RevealQ == 11
RevealG == 2

revealParams == [G |-> RevealG, P |-> RevealP, Q |-> RevealQ]

\* the pair drawn for bidder i at position k: the NewBidder loop has made
\* 2 * n * l draws before, then x and s alternate in the order of the loops
RevealPair(seed, i, k, n, l) ==
    [X |-> RandBigInt(seed, 2 * n * l + 2 * (i * l + k), revealParams.Q),
     S |-> RandBigInt(seed, 2 * n * l + 2 * (i * l + k) + 1, revealParams.Q)]

RECURSIVE totalProdX(_, _, _)
\* product of publicBitPairs[i][col].X for i in 0..n-1, by MulMod
totalProdX(bs, col, n) ==
    IF n = 0 THEN 1
    ELSE MulMod(totalProdX(bs, col, n - 1), bs[n - 1].PublicBitPairs[col].X,
                revealParams.P)

\* lines 46-93: the records of the bidders once binaryBids, the bit pairs and
\* tijs are computed
RevealBidders(bs, l, seeds) ==
    LET n == Cardinality(DOMAIN bs)
        drawn == [i \in DOMAIN bs |->
                    [BinaryBid |-> IntToBits(bs[i], l),
                     PrivateBitPairs |->
                         [k \in 0..(l - 1) |-> RevealPair(seeds[i], i, k, n, l)],
                     PublicBitPairs |->
                         [k \in 0..(l - 1) |->
                             [X |-> ModExp(revealParams.G,
                                           RevealPair(seeds[i], i, k, n, l).X,
                                           revealParams.P),
                              S |-> ModExp(revealParams.G,
                                           RevealPair(seeds[i], i, k, n, l).S,
                                           revealParams.P)]]]]
    IN [i \in DOMAIN bs |->
          [BinaryBid |-> drawn[i].BinaryBid,
           PrivateBitPairs |-> drawn[i].PrivateBitPairs,
           PublicBitPairs |-> drawn[i].PublicBitPairs,
           Tij |-> [col \in 0..(l - 1) |->
                      DivMod(totalProdX(drawn, col, n),
                             drawn[i].PublicBitPairs[col].X, revealParams.P)],
           IsLost |-> FALSE]]

\* the value e_ij bidder i contributes at position col
RevealTerm(bs, i, col) ==
    LET b_ij == bs[i].BinaryBid[col]
        x_ij == bs[i].PrivateBitPairs[col].X
        s_ij == bs[i].PrivateBitPairs[col].S
    IN IF b_ij = 0 /\ ~bs[i].IsLost
       THEN ModExp(bs[i].Tij[col], s_ij, revealParams.P)
       ELSE ModExp(bs[i].Tij[col], x_ij, revealParams.P)

RECURSIVE RevealEProduct(_, _, _)
RevealEProduct(bs, col, n) ==
    IF n = 0 THEN 1
    ELSE MulMod(RevealEProduct(bs, col, n - 1), RevealTerm(bs, n - 1, col),
                revealParams.P)

\* hasZero of bid-reveal.go: the aggregate equals 1
RevealHasZero(bs, col) == RevealEProduct(bs, col, Cardinality(DOMAIN bs)) = 1

\* lines 35-96: NewBidder loop, the n == 0 return, and everything computed
\* before the round loop
RevealSetup ==
    /\ pc = "start"
    /\ IF NumBids = 0
       THEN /\ pc' = "done"
            /\ ret' = 0
            /\ UNCHANGED <<bidders, clearingPriceBits>>
       ELSE \E seeds \in [DOMAIN bids -> 0..MaxSeed] :
              LET bs == RevealBidders(bids, bitLength, seeds)
              IN IF \E i \in DOMAIN bs : \E col \in 0..(bitLength - 1) :
                       bs[i].Tij[col] = Nil
                 THEN /\ pc' = "panic"
                      /\ UNCHANGED <<bidders, clearingPriceBits, ret>>
                 ELSE /\ bidders' = bs
                      /\ clearingPriceBits' = [col \in 0..(bitLength - 1) |-> 0]
                      /\ pc' = "rounds"
                      /\ UNCHANGED ret
    /\ UNCHANGED <<bids, bitLength, hz, j>>
    /\ UNCHANGED <<zkVars, utilVars, auctionVars>>

\* lines 97-104: one iteration of the round loop, HasZeroAtBitPosition
\* included (its elimination loop, lines 133-138, is that of part_000)
RevealRound ==
    /\ pc = "rounds"
    /\ j < bitLength
    /\ LET hasZero == RevealHasZero(bidders, j)
       IN /\ bidders' = IF hasZero THEN Eliminate(bidders, j) ELSE bidders
          /\ clearingPriceBits' =
                [clearingPriceBits EXCEPT ![j] = IF hasZero THEN 0 ELSE 1]
          /\ j' = j + 1
    /\ UNCHANGED <<bids, bitLength, hz, pc, ret>>
    /\ UNCHANGED <<zkVars, utilVars, auctionVars>>

\* line 106
RevealReturn ==
    /\ pc = "rounds"
    /\ j >= bitLength
    /\ ret' = BitsToInt(clearingPriceBits, bitLength)
    /\ pc' = "done"
    /\ UNCHANGED <<bids, bitLength, hz, bidders, j, clearingPriceBits>>
    /\ UNCHANGED <<zkVars, utilVars, auctionVars>>

NextReveal == RevealSetup \/ RevealRound \/ RevealReturn

SpecReveal == Init /\ [][NextReveal]_vars

(***************************************************************************)
(* The proof subsystem: a prover calls GenerateZKProofEij on a value it    *)
(* formed from its secrets, a verifier calls VerifyZKProofEij on the       *)
(* result.                                                                 *)
(***************************************************************************)
MaxScalar == 0     \* secrets and digests are drawn from 0..MaxScalar and q - 1
MaxBlind == 0      \* blinding values are drawn from 0..MaxBlind and q - 1
MaxPos == 1        \* bit positions 0..MaxPos
MaxBitArg == 2     \* bit arguments 0..MaxBitArg

ScalarSet(q) == (0..MaxScalar) \cup {q - 1}

BlindSet(q) == (0..MaxBlind) \cup {q - 1}

RndSet(q) == [alpha : BlindSet(q), beta : BlindSet(q), w : BlindSet(q),
              v : BlindSet(q), cf : BlindSet(q)]

\* the commitments of the tests: computeCommitment(params, b_i, r_i)
CommitSet(params) ==
    {computeCommitment(params, 5, 7), computeCommitment(params, 13, 11)}

\* the published value a prover forms for bit b from its secrets
EijOf(params, t, s, b) ==
    IF b = 1 THEN (GH(params, t, s) * params.G) % params.P
    ELSE GH(params, t, s)

InitZK ==
    /\ EngineOff
    /\ zkParams \in ParamChoices
    /\ zkIn = NoInput
    /\ zkOut = NoOutput
    /\ oracle = <<>>
    /\ zkVerify = NoVerify
    /\ zkpc = "idle"
    /\ UtilOff
    /\ AuctionOff

\* the values a verifier may be handed for a proof generated on e: e itself,
\* or e multiplied by a non-identity group element (TestZKProofEij_WrongEij
\* multiplies by g)
HandedValues(params, e) ==
    {e, (e * params.G) % params.P}

\* the digest table extended by the digest d of a hasher input not yet seen
\* a hasher that answers a repeated input with a fresh digest
Hashed_Fresh(orc, key, d) == (key :> d) @@ orc

\* sha256 of `key`: the digest already known for this byte string, else d
Hashed(orc, key, d) == IF key \in DOMAIN orc THEN orc ELSE (key :> d) @@ orc

Prove ==
    /\ zkpc = "idle"
    /\ \E C \in CommitSet(zkParams), b \in 0..MaxBitArg, pos \in 0..MaxPos,
          t, s, d \in ScalarSet(zkParams.Q), rnd \in RndSet(zkParams.Q) :
          \E e \in (IF b \in {0, 1} THEN {EijOf(zkParams, t, s, b)}
                    ELSE {0, EijOf(zkParams, t, s, b)}) :
            LET a   == Commitments(zkParams, e, b, rnd)
                key == HashInput(zkParams, C, e, a.a1, a.a2, pos)
                orc == Hashed(oracle, key, d)
                out == GenerateZKProofEij(orc, zkParams, C, e, t, s, b, pos, rnd)
            IN /\ zkIn' = [C |-> C, e |-> e, t |-> t, s |-> s, b |-> b, pos |-> pos]
               /\ zkOut' = out
               /\ oracle' = IF out.err = NoError THEN orc ELSE oracle
    /\ zkpc' = "generated"
    /\ UNCHANGED <<zkParams, zkVerify>>
    /\ UNCHANGED <<engineVars, utilVars, auctionVars>>

Verify ==
    /\ zkpc = "generated"
    /\ zkOut.err = NoError
    /\ \E pos \in (0..MaxPos) \cup {zkIn.pos + ByteRange}, d \in ScalarSet(zkParams.Q),
          e \in HandedValues(zkParams, zkIn.e) :
          LET orc == Hashed(oracle,
                            HashInput(zkParams, zkIn.C, e,
                                      zkOut.proof.A1, zkOut.proof.A2, pos), d)
          IN /\ zkVerify' = [e |-> e, pos |-> pos,
                             ok |-> VerifyZKProofEij(orc, zkParams, zkIn.C, e,
                                                     zkOut.proof, pos)]
             /\ oracle' = orc
    /\ zkpc' = "verified"
    /\ UNCHANGED <<zkParams, zkIn, zkOut>>
    /\ UNCHANGED <<engineVars, utilVars, auctionVars>>

NextZK == Prove \/ Verify

SpecZK == InitZK /\ [][NextZK]_vars

(***************************************************************************)
(* The utility functions called on their own: a caller converts an int to  *)
(* bits and back, or bits to an int and back, or divides modulo a number.  *)
(***************************************************************************)
MaxBits == 3       \* bit lengths 0..MaxBits, and bit patterns of that length
MaxInt == 7        \* ints MinBid..MaxInt
MaxMod == 8        \* moduli 2..MaxMod; operands 0..mod

\* the lengths a caller passes: the short ones, the width of int, one more
LenSet == (0..MaxBits) \cup {IntBits, IntBits + 1}

\* the bit sequence of length n that starts with `pattern` and goes on with 0
Padded(pattern, m, n) == [i \in 0..(n - 1) |-> IF i < m THEN pattern[i] ELSE 0]

\* the 0/1 sequences a caller passes: every short one, and long ones
BitSeqs ==
    UNION {[0..(n - 1) -> {0, 1}] : n \in 0..MaxBits}
        \cup {Padded(pattern, MaxBits, n) :
                  pattern \in [0..(MaxBits - 1) -> {0, 1}], n \in {IntBits, IntBits + 1}}

LenOf(bits) == Cardinality(DOMAIN bits)

ConvInputs ==
    {[pc |-> "int", origin |-> "int", steps |-> 0, len |-> l,
      word |-> ToWord(v), bits |-> <<>>, value0 |-> v, bits0 |-> <<>>] :
         v \in MinBid..MaxInt, l \in LenSet}
    \cup {[pc |-> "bits", origin |-> "bits", steps |-> 0, len |-> LenOf(b),
           word |-> <<>>, bits |-> b, value0 |-> 0, bits0 |-> b] : b \in BitSeqs}

\* moduli of the program and small ones, prime and composite
ModSet == (2..MaxMod) \cup {RevealP}

DivInputs ==
    UNION {{[pc |-> "call", a |-> a, b |-> b, mod |-> m, result |-> Nil] :
               a \in 0..m, b \in 0..m} : m \in ModSet}

InitUtil ==
    /\ EngineOff
    /\ ZKOff
    /\ AuctionOff
    /\ \/ conv \in ConvInputs /\ div = NoDiv
       \/ conv = NoConv /\ div \in DivInputs

\* bits := IntToBits(value, len)
IntToBitsStep ==
    /\ conv.pc = "int"
    /\ conv.steps < 2
    /\ conv' = [conv EXCEPT !.bits = IntToBitsWord(conv.word, conv.len),
                            !.pc = "bits", !.steps = @ + 1]
    /\ UNCHANGED <<engineVars, zkVars, div, auctionVars>>

\* value := BitsToInt(bits)
BitsToIntStep ==
    /\ conv.pc = "bits"
    /\ conv.steps < 2
    /\ conv' = [conv EXCEPT !.word = BitsToIntWord(conv.bits, LenOf(conv.bits)),
                            !.pc = "int", !.steps = @ + 1]
    /\ UNCHANGED <<engineVars, zkVars, div, auctionVars>>

\* result := DivMod(a, b, mod), or the panic
DivModStep ==
    /\ div.pc = "call"
    /\ LET c == DivMod(div.a, div.b, div.mod)
       IN div' = [div EXCEPT !.result = c,
                             !.pc = IF c = Nil THEN "panic" ELSE "returned"]
    /\ UNCHANGED <<engineVars, zkVars, conv, auctionVars>>

NextUtil == IntToBitsStep \/ BitsToIntStep \/ DivModStep

SpecUtil == InitUtil /\ [][NextUtil]_vars

(***************************************************************************)
(* Auction.sol.  Every action is one external call of the contract by an   *)
(* account: it either succeeds and changes the storage, or reverts and     *)
(* leaves storage and balance as they were.  tx records the call.  An      *)
(* account that receives ether either accepts it or rejects it; it does    *)
(* not call back into the contract.                                        *)
(***************************************************************************)
BIT_LENGTH == 32
AuctionP == 2039
AuctionQ == 1019
AuctionG == 9
AuctionH == 461

MaxDeposit == 1    \* the purchaser deposits 1..MaxDeposit
MaxPrice == 1      \* clearing prices, committed bids and randomness 0..MaxPrice
MaxCount == 1      \* at most this many submissions are followed per bit position

NoAddress == "0x0"
Purchaser == "purchaser"
Accounts == {"purchaser", "bidder1", "bidder2"}

\* the whitelists the contract is deployed with, and the sets of accounts
\* that reject a transfer
WhitelistChoices == {{"bidder1"}, {"bidder1", "bidder2"}, {"purchaser", "bidder1"}}
RejectChoices == {{}, {"bidder1"}}

\* the bit positions submitted
SubmitPositions == {0}

\* bidder ids, bit positions
BIDs == 0..(Cardinality(Accounts) - 1)
Positions == 0..BIT_LENGTH

\* array.push(x), arrays being functions on 0..len-1
Push(arr, x) ==
    [i \in 0..Cardinality(DOMAIN arr) |-> IF i \in DOMAIN arr THEN arr[i] ELSE x]

RECURSIVE modPow(_, _, _)
modPow(base, exp, mod) ==
    IF exp = 0 THEN 1
    ELSE LET rest == modPow((base * base) % mod, exp \div 2, mod)
         IN IF exp % 2 = 1 THEN ((base % mod) * rest) % mod ELSE rest

\* pedersenCommit without its two require statements
pedersenCommit(bid, randomness) ==
    (modPow(AuctionG, bid, AuctionP) * modPow(AuctionH, randomness, AuctionP))
        % AuctionP

RECURSIVE clearingPriceBitsToClearingPrice(_, _)
\* the sum of 1 << (length - 1 - k) over the entries k >= from that are 1
clearingPriceBitsToClearingPrice(bits, from) ==
    IF from >= Cardinality(DOMAIN bits) THEN 0
    ELSE (IF bits[from] = 1 THEN Pow2(Cardinality(DOMAIN bits) - 1 - from) ELSE 0)
            + clearingPriceBitsToClearingPrice(bits, from + 1)

\* the storage after the constructor ran with _whitelist and msg.value
Deployed(whitelist, value) ==
    [purchaser |-> Purchaser,
     whitelisted |-> whitelist,
     N |-> Cardinality(whitelist),
     joinedList |-> <<>>,
     joined |-> {},
     bidderIndex |-> [a \in Accounts |-> 0],
     deposit |-> value,
     auctionEnded |-> FALSE,
     isRefunded |-> FALSE,
     winner |-> NoAddress,
     clearingPriceBits |-> <<>>,
     clearingPrice |-> 0,
     commitments |-> [b \in BIDs |-> 0],
     publicXs |-> [b \in BIDs |-> <<>>],
     publicSs |-> [b \in BIDs |-> <<>>],
     bitCommits |-> [b \in BIDs |-> [k \in Positions |-> 0]],
     bitCommitCounts |-> [k \in Positions |-> 0],
     bitCommitProds |-> [k \in Positions |-> IF k < BIT_LENGTH THEN 1 ELSE 0]]

Call(fn, sender, value, arg, lenX, lenS, ok, transfers) ==
    [fn |-> fn, sender |-> sender, value |-> value, arg |-> arg,
     lenX |-> lenX, lenS |-> lenS, ok |-> ok, transfers |-> transfers]

\* the values a bidder commits to, and the key arrays it registers
CommitValues == {pedersenCommit(b, b) : b \in 0..MaxPrice}

KeyArray(len, key) == [i \in 0..(len - 1) |-> key]

\* the lengths of the arrays _publicXs and _publicSs a caller passes
KeyLengths == {<<BIT_LENGTH, BIT_LENGTH>>, <<BIT_LENGTH - 1, BIT_LENGTH>>,
               <<BIT_LENGTH, BIT_LENGTH - 1>>}

\* the history of a contract just deployed: nothing submitted, nothing refunded
EmptyLedger ==
    [by |-> <<>>, prod |-> <<>>, refunds |-> [a \in Accounts |-> 0]]

\* the history after a successful submitBitCommitment: one more commitment
\* of sender for bitPosition, and the product modulo P of those submitted
\* for it; by and prod are kept for the positions submitted so far
Recorded(led, sender, bitPosition, bitCommitment) ==
    LET seen == bitPosition \in DOMAIN led.by
        by   == IF seen THEN led.by[bitPosition] ELSE [a \in Accounts |-> 0]
        prod == IF seen THEN led.prod[bitPosition] ELSE 1
    IN [led EXCEPT
          !.by = [k \in DOMAIN led.by \cup {bitPosition} |->
                    IF k = bitPosition THEN [by EXCEPT ![sender] = @ + 1]
                    ELSE led.by[k]],
          !.prod = [k \in DOMAIN led.prod \cup {bitPosition} |->
                      IF k = bitPosition THEN (prod * bitCommitment) % AuctionP
                      ELSE led.prod[k]]]

\* the history after a successful refundLosers that made `transfers`
Refunded(led, transfers) ==
    [led EXCEPT !.refunds =
        [a \in Accounts |->
            @[a] + Cardinality({i \in DOMAIN transfers : transfers[i].to = a})]]

InitAuction ==
    /\ EngineOff
    /\ ZKOff
    /\ UtilOff
    /\ \E whitelist \in WhitelistChoices, value \in 1..MaxDeposit :
          /\ auction = Deployed(whitelist, value)
          /\ balance = value
          /\ tx = Call("constructor", Purchaser, value, 0, 0, 0, TRUE, <<>>)
    /\ rejecting \in RejectChoices
    /\ ledger = EmptyLedger

\* the call reverts; of a reverted call tx keeps the function only
Revert(fn) ==
    /\ tx' = Call(fn, NoAddress, 0, 0, 0, 0, FALSE, <<>>)
    /\ UNCHANGED <<auction, balance, rejecting, ledger>>

\* the require statements of addBidder, the one on msg.value left out
addBidderAllowed_AnyValue(st, sender, value, lenX, lenS) ==
    /\ ~st.auctionEnded
    /\ sender \in st.whitelisted
    /\ sender \notin st.joined
    /\ lenX = BIT_LENGTH /\ lenS = BIT_LENGTH

\* the modifier and the require statements of addBidder
addBidderAllowed(st, sender, value, lenX, lenS) ==
    /\ ~st.auctionEnded
    /\ sender \in st.whitelisted
    /\ sender \notin st.joined
    /\ value = st.deposit
    /\ lenX = BIT_LENGTH /\ lenS = BIT_LENGTH

\* the storage after a successful addBidder
Registered(st, sender, c, xs, ss) ==
    LET BID == Cardinality(DOMAIN st.joinedList)
    IN [st EXCEPT
          !.bidderIndex[sender] = BID,
          !.whitelisted = @ \cup {sender},
          !.joined = @ \cup {sender},
          !.joinedList = Push(@, sender),
          !.commitments[BID] = c,
          !.publicXs[BID] = xs,
          !.publicSs[BID] = ss]

addBidder ==
    /\ \E sender \in Accounts, value \in {auction.deposit, auction.deposit + 1},
          lens \in KeyLengths :
          IF addBidderAllowed(auction, sender, value, lens[1], lens[2])
          THEN \E c \in CommitValues :
                    /\ auction' = Registered(auction, sender, c,
                                             KeyArray(lens[1], AuctionG),
                                             KeyArray(lens[2], AuctionH))
                    /\ balance' = balance + value
                    /\ tx' = Call("addBidder", sender, value, c, lens[1], lens[2],
                                  TRUE, <<>>)
                    /\ UNCHANGED <<rejecting, ledger>>
          ELSE Revert("addBidder")
    /\ UNCHANGED <<engineVars, zkVars, utilVars>>

setClearingPrice ==
    /\ \E sender \in Accounts, price \in 0..MaxPrice :
          IF sender = auction.purchaser /\ ~auction.auctionEnded
                /\ auction.winner = NoAddress
          THEN /\ auction' = [auction EXCEPT !.clearingPrice = price]
               /\ tx' = Call("setClearingPrice", sender, 0, price, 0, 0, TRUE, <<>>)
               /\ UNCHANGED <<balance, rejecting, ledger>>
          ELSE Revert("setClearingPrice")
    /\ UNCHANGED <<engineVars, zkVars, utilVars>>

\* the storage after a successful submitBitCommitment
Submitted(st, sender, bitPosition, bitCommitment) ==
    LET BID   == st.bidderIndex[sender]
        prod  == (st.bitCommitProds[bitPosition] * bitCommitment) % AuctionP
        count == st.bitCommitCounts[bitPosition] + 1
        bits  == IF count = st.N
                 THEN Push(st.clearingPriceBits, IF prod = 1 THEN 1 ELSE 0)
                 ELSE st.clearingPriceBits
    IN [st EXCEPT
          !.bitCommits[BID][bitPosition] = bitCommitment,
          !.bitCommitProds[bitPosition] = prod,
          !.bitCommitCounts[bitPosition] = count,
          !.clearingPriceBits = bits,
          !.clearingPrice =
              IF count = st.N /\ Cardinality(DOMAIN bits) = BIT_LENGTH
              THEN clearingPriceBitsToClearingPrice(bits, 0) ELSE @]

submitBitCommitment ==
    /\ \E sender \in Accounts, bitPosition \in SubmitPositions,
          bitCommitment \in {1, AuctionG} :
          /\ auction.bitCommitCounts[bitPosition] < MaxCount
          /\ IF sender \in auction.joined /\ ~auction.auctionEnded
             THEN /\ auction' = Submitted(auction, sender, bitPosition, bitCommitment)
                  /\ tx' = Call("submitBitCommitment", sender, 0, bitCommitment,
                                bitPosition, 0, TRUE, <<>>)
                  /\ ledger' = Recorded(ledger, sender, bitPosition, bitCommitment)
                  /\ UNCHANGED <<balance, rejecting>>
             ELSE Revert("submitBitCommitment")
    /\ UNCHANGED <<engineVars, zkVars, utilVars>>

\* the require statements of declareWinner, the one on winner left out
declareWinnerAllowed_Again(st, sender, randomness) ==
    /\ sender \in st.joined
    /\ ~st.auctionEnded
    /\ st.clearingPrice < AuctionQ /\ randomness < AuctionQ
    /\ st.commitments[st.bidderIndex[sender]]
          = pedersenCommit(st.clearingPrice, randomness)

\* the modifiers and the require statements of declareWinner, those of
\* pedersenCommit included
declareWinnerAllowed(st, sender, randomness) ==
    /\ sender \in st.joined
    /\ ~st.auctionEnded
    /\ st.winner = NoAddress
    /\ st.clearingPrice < AuctionQ /\ randomness < AuctionQ
    /\ st.commitments[st.bidderIndex[sender]]
          = pedersenCommit(st.clearingPrice, randomness)

declareWinner ==
    /\ \E sender \in Accounts, randomness \in (0..MaxPrice) \cup {AuctionQ} :
          IF declareWinnerAllowed(auction, sender, randomness)
          THEN /\ auction' = [auction EXCEPT !.winner = sender]
               /\ tx' = Call("declareWinner", sender, 0, randomness, 0, 0, TRUE, <<>>)
               /\ UNCHANGED <<balance, rejecting, ledger>>
          ELSE Revert("declareWinner")
    /\ UNCHANGED <<engineVars, zkVars, utilVars>>

\* to.call{value: amount}(""): success, and the balance left.  The accounts
\* paid are those of the tests: an account takes the payment or rejects it,
\* and calls nothing while it is paid.
Pay(held, to, amount) ==
    IF to \in rejecting \/ held < amount THEN [success |-> FALSE, held |-> held]
    ELSE [success |-> TRUE, held |-> held - amount]

\* the refund loop pays every entry of joinedList
IsLoser_Everyone(st, bidder) == TRUE

\* the test of the refund loop
IsLoser(st, bidder) == bidder # st.winner

RECURSIVE RefundLoop(_, _, _, _)
\* the loop of refundLosers from index i on: whether every call succeeded,
\* the balance left and the transfers made
RefundLoop(st, i, held, transfers) ==
    IF i >= Cardinality(DOMAIN st.joinedList)
    THEN [success |-> TRUE, held |-> held, transfers |-> transfers]
    ELSE IF IsLoser(st, st.joinedList[i])
    THEN LET paid == Pay(held, st.joinedList[i], st.deposit)
         IN IF paid.success
            THEN RefundLoop(st, i + 1, paid.held,
                            Push(transfers, [to |-> st.joinedList[i],
                                             value |-> st.deposit]))
            ELSE [success |-> FALSE, held |-> held, transfers |-> transfers]
    ELSE RefundLoop(st, i + 1, held, transfers)

\* the modifiers and the require statements of refundLosers before the loop
refundLosersAllowed(st, sender, value) ==
    /\ sender = st.purchaser /\ ~st.auctionEnded
    /\ st.winner # NoAddress
    /\ ~st.isRefunded
    /\ value = st.clearingPrice

refundLosers ==
    /\ \E sender \in Accounts,
          value \in {auction.clearingPrice, auction.clearingPrice + 1} :
          LET loop == RefundLoop(auction, 0, balance + value, <<>>)
          IN IF /\ refundLosersAllowed(auction, sender, value)
                /\ loop.success
             THEN /\ auction' = [auction EXCEPT !.isRefunded = TRUE]
                  /\ balance' = loop.held
                  /\ tx' = Call("refundLosers", sender, value, 0, 0, 0, TRUE,
                                loop.transfers)
                  /\ ledger' = Refunded(ledger, loop.transfers)
                  /\ UNCHANGED rejecting
             ELSE Revert("refundLosers")
    /\ UNCHANGED <<engineVars, zkVars, utilVars>>

\* the payments of finalize: to the purchaser, then to the winner
Payments(st, held) ==
    LET first  == Pay(held, st.purchaser, st.deposit)
        second == Pay(first.held, st.winner, st.deposit + st.clearingPrice)
    IN [success |-> first.success /\ second.success,
        held |-> second.held,
        transfers |-> Push(Push(<<>>, [to |-> st.purchaser, value |-> st.deposit]),
                           [to |-> st.winner,
                            value |-> st.deposit + st.clearingPrice])]

\* the require statements of finalize, the one on isRefunded left out
finalizeAllowed_BeforeRefund(st, sender) ==
    /\ sender = st.purchaser /\ ~st.auctionEnded
    /\ st.winner # NoAddress

\* the modifiers and the require statements of finalize
finalizeAllowed(st, sender) ==
    /\ sender = st.purchaser /\ ~st.auctionEnded
    /\ st.winner # NoAddress
    /\ st.isRefunded

finalize ==
    /\ \E sender \in Accounts :
          LET pay == Payments(auction, balance)
          IN IF /\ finalizeAllowed(auction, sender)
                /\ pay.success
             THEN /\ auction' = [auction EXCEPT !.auctionEnded = TRUE]
                  /\ balance' = pay.held
                  /\ tx' = Call("finalize", sender, 0, 0, 0, 0, TRUE, pay.transfers)
                  /\ UNCHANGED <<rejecting, ledger>>
             ELSE Revert("finalize")
    /\ UNCHANGED <<engineVars, zkVars, utilVars>>

NextAuction ==
    \/ addBidder
    \/ setClearingPrice
    \/ submitBitCommitment
    \/ declareWinner
    \/ refundLosers
    \/ finalize

SpecAuction == InitAuction /\ [][NextAuction]_vars

(***************************************************************************)
(* The contract with a purchaser that keeps calling: a call of            *)
(* refundLosers or of finalize that would succeed is eventually made.      *)
(* Nothing is assumed of the other accounts.                               *)
(***************************************************************************)
\* the purchaser's call of refundLosers goes through
PurchaserRefunds == refundLosers /\ tx'.ok

\* the purchaser's call of finalize goes through
PurchaserFinalizes == finalize /\ tx'.ok

SpecAuctionFair ==
    /\ InitAuction
    /\ [][NextAuction]_vars
    /\ WF_vars(PurchaserRefunds)
    /\ WF_vars(PurchaserFinalizes)

(***************************************************************************)
(* The contract followed through its bit submissions: a bidder may submit  *)
(* a position again, out of order, or a position that is no bit position   *)
(* (submitBitCommitment checks none of it).  A run starts at deployment,   *)
(* and the first entry of clearingPriceBits comes from position 1 or from  *)
(* position BIT_LENGTH; or it starts from the contract whose only bidder   *)
(* has joined and has submitted the positions 0 .. BIT_LENGTH - 3 in       *)
(* order, and goes on until clearingPriceBits holds BIT_LENGTH entries.    *)
(***************************************************************************)
MaxRepeat == 2     \* at most this many submissions are followed per bit position

BitWhitelists == {{"bidder1"}, {"bidder1", "bidder2"}}

RECURSIVE SubmittedUpTo(_, _, _, _)
\* the storage after sender submitted bitCommitment for the positions 0..k-1
SubmittedUpTo(st, sender, bitCommitment, k) ==
    IF k = 0 THEN st
    ELSE Submitted(SubmittedUpTo(st, sender, bitCommitment, k - 1),
                   sender, k - 1, bitCommitment)

RECURSIVE RecordedUpTo(_, _, _, _)
\* the history of these submissions
RecordedUpTo(led, sender, bitCommitment, k) ==
    IF k = 0 THEN led
    ELSE Recorded(RecordedUpTo(led, sender, bitCommitment, k - 1),
                  sender, k - 1, bitCommitment)

\* the contract deployed for bidder1 alone, after bidder1 joined and
\* submitted g for each of the first BIT_LENGTH - 2 positions
LateStorage ==
    SubmittedUpTo(Registered(Deployed({"bidder1"}, 1), "bidder1",
                             pedersenCommit(0, 0),
                             KeyArray(BIT_LENGTH, AuctionG),
                             KeyArray(BIT_LENGTH, AuctionH)),
                  "bidder1", AuctionG, BIT_LENGTH - 2)

InitBits ==
    /\ EngineOff
    /\ ZKOff
    /\ UtilOff
    /\ \/ \E whitelist \in BitWhitelists :
             /\ auction = Deployed(whitelist, 1)
             /\ balance = 1
             /\ tx = Call("constructor", Purchaser, 1, 0, 0, 0, TRUE, <<>>)
             /\ ledger = EmptyLedger
       \/ /\ auction = LateStorage
          /\ balance = 2
          /\ tx = Call("submitBitCommitment", "bidder1", 0, AuctionG,
                       BIT_LENGTH - 3, 0, TRUE, <<>>)
          /\ ledger = RecordedUpTo(EmptyLedger, "bidder1", AuctionG, BIT_LENGTH - 2)
    /\ rejecting = {}

\* the values of bitPosition passed next
FreePositions(st) ==
    LET len == Cardinality(DOMAIN st.clearingPriceBits)
    IN IF len < 1 THEN {1, BIT_LENGTH}
       ELSE IF BIT_LENGTH - 2 <= len /\ len < BIT_LENGTH THEN {len}
       ELSE {}

submitBitCommitmentFree ==
    /\ \E sender \in Accounts, bitPosition \in FreePositions(auction),
          bitCommitment \in {1, AuctionG} :
          /\ auction.bitCommitCounts[bitPosition] < MaxRepeat
          /\ IF sender \in auction.joined /\ ~auction.auctionEnded
             THEN /\ auction' = Submitted(auction, sender, bitPosition, bitCommitment)
                  /\ tx' = Call("submitBitCommitment", sender, 0, bitCommitment,
                                bitPosition, 0, TRUE, <<>>)
                  /\ ledger' = Recorded(ledger, sender, bitPosition, bitCommitment)
                  /\ UNCHANGED <<balance, rejecting>>
             ELSE Revert("submitBitCommitment")
    /\ UNCHANGED <<engineVars, zkVars, utilVars>>

NextBits ==
    \/ addBidder
    \/ setClearingPrice
    \/ submitBitCommitmentFree
    \/ declareWinner
    \/ refundLosers
    \/ finalize

SpecBits == InitBits /\ [][NextBits]_vars

(***************************************************************************)
(* Properties of the clearing-price engine (checked under Spec).           *)
(***************************************************************************)
\* every bid fits the declared bit length
InRange == \A i \in DOMAIN bids : 0 <= bids[i] /\ bids[i] < Pow2(bitLength)

Returned == pc = "done"

\* C1: for a non-empty bid list whose bids all fit the bit length, the value
\* returned by DetermineClearingPrice is min(bids), whatever the secrets.
C1_ReturnsMinBid ==
    (Returned /\ NumBids >= 1 /\ InRange) => ret = MinOf(bids, NumBids)

\* C4: after all L rounds a participant is not lost if and only if its bid
\* equals the returned clearing price.
C4_ActiveIffBidIsPrice ==
    (Returned /\ NumBids >= 1 /\ InRange)
        => \A i \in DOMAIN bidders : (~bidders[i].IsLost) <=> (bids[i] = ret)

\* C5: with a single participant the returned price is that participant's bid
\* and the participant is not marked lost.
C5_SingleBidderKeepsBid ==
    (Returned /\ NumBids = 1 /\ InRange)
        => (ret = bids[0] /\ ~bidders[0].IsLost)

\* C6: a call with an empty bid list does not fail: once past construction it
\* has returned 0 without running a round.
C6_EmptyListReturnsZero ==
    (NumBids = 0 /\ pc \notin {"start", "constructed"})
        => (pc = "done" /\ ret = 0 /\ j = 0)

\* C7: a bid that is negative or does not fit the bit length stops the call
\* before round 0: no round runs and no price is returned.
C7_OutOfRangeIsFatal ==
    (NumBids >= 1 /\ ~InRange) => pc \notin {"rounds", "done"}

\* C8: IsLost is monotonic during a run: construction leaves every flag false,
\* and no step turns a true flag back to false.
C8_IsLostMonotonic ==
    [][/\ (pc = "start" /\ pc' = "constructed")
             => \A i \in DOMAIN bidders' : ~bidders'[i].IsLost
       /\ \A i \in DOMAIN bidders :
             bidders[i].IsLost => (i \in DOMAIN bidders' /\ bidders'[i].IsLost)]_vars

\* a lost participant went through a later round that found a zero bit while
\* its own bit there is 0
C8_Witness ==
    /\ pc = "rounds"
    /\ j >= 2
    /\ \E i \in DOMAIN bidders :
          /\ bidders[i].IsLost
          /\ bidders[i].BinaryBid[0] = 1
          /\ bidders[i].BinaryBid[j - 1] = 0
          /\ clearingPriceBits[0] = 0
          /\ clearingPriceBits[j - 1] = 0

\* C12: the returned price and the set of lost participants depend only on
\* the bids and the bit length: every other choice of the secrets, run on the
\* same bids and bit length, ends with the same price and the same lost set.
C12_ResultIndependentOfSecrets ==
    (Returned /\ NumBids >= 1 /\ InRange)
        => \A seeds \in [DOMAIN bids -> 0..MaxSeed] :
              LET other == RunOf(bids, bitLength, seeds)
              IN ~other.panic
                    => /\ BitsToInt(other.bits, bitLength) = ret
                       /\ \A i \in DOMAIN bidders :
                             other.bidders[i].IsLost = bidders[i].IsLost

(***************************************************************************)
(* Properties of the engine of bid-reveal.go (checked under SpecReveal).   *)
(***************************************************************************)
\* C14: for a non-empty bid list whose bids all fit the bit length, the value
\* returned by DetermineClearingPrice of bid-reveal.go is min(bids), whatever
\* the secrets.
C14_RevealReturnsMinBid ==
    (Returned /\ NumBids >= 1 /\ InRange) => ret = MinOf(bids, NumBids)

(***************************************************************************)
(* Properties of the proof subsystem (checked under SpecZK).               *)
(***************************************************************************)
Verified == zkpc = "verified"

C3_CompletenessBit1 ==
    (Verified /\ ValidGroup(zkParams) /\ zkIn.b = 1
              /\ zkVerify.e = zkIn.e /\ zkVerify.pos = zkIn.pos)
        => zkVerify.ok

\* C9: a bit argument other than 0 or 1 makes GenerateZKProofEij return the
\* error ErrInvalidBitValue and a nil proof.
C9_InvalidBitRejected ==
    (zkpc = "generated" /\ zkIn.b \notin {0, 1})
        => (zkOut.err = ErrInvalidBitValue /\ zkOut.proof = NilProof)

\* a call with bit 2 on the value 0, which no branch could invert
C9_Witness ==
    /\ zkpc = "generated"
    /\ zkIn.b = 2
    /\ zkIn.e = 0
    /\ zkOut.err = ErrInvalidBitValue

\* distinct hasher inputs have distinct digests
CollisionFree ==
    \A k1, k2 \in DOMAIN oracle : k1 # k2 => oracle[k1] # oracle[k2]

\* C10: position binding: over group parameters whose g and h have order q, a
\* generated proof checked against a position other than the one it was
\* generated for is rejected (stated for the runs in which the hash has no
\* collision, the runs most favourable to the claim).
C10_PositionBinding ==
    (Verified /\ ValidGroup(zkParams) /\ CollisionFree
              /\ zkVerify.e = zkIn.e /\ zkVerify.pos # zkIn.pos)
        => ~zkVerify.ok

\* the verifier was handed a value other than the one the proof was made for
Tampered == Verified /\ zkVerify.e # zkIn.e /\ zkVerify.pos = zkIn.pos

\* C11 (as stated): value binding: a generated proof checked against
\* e' = e * f mod p, f a non-identity group element, with the same parameters,
\* commitment and position, is rejected.
C11_ValueBinding == Tampered => ~zkVerify.ok

\* C11 (amended): the same, for the runs in which the digest of the hasher
\* input holding e' differs from every other digest computed (the hash has
\* no collision modulo q).
C11_ValueBindingNoCollision == (Tampered /\ CollisionFree) => ~zkVerify.ok

\* a tampered value that both verification equations accept (the challenges
\* are zero), rejected by the challenge check alone
C11_Witness ==
    /\ Tampered /\ CollisionFree /\ ValidGroup(zkParams)
    /\ zkVerify.e = (zkIn.e * zkParams.G) % zkParams.P
    /\ Equation1(zkParams, zkVerify.e, zkOut.proof)
    /\ Equation2(zkParams, zkVerify.e, zkOut.proof)
    /\ ~zkVerify.ok

\* a proof was generated without error
Generated == zkpc = "generated" /\ zkOut.err = NoError

\* C13: the public tuple does not tell which bit the prover held: over group
\* parameters whose g and h have order q, for the same value e, commitment and
\* position, a tuple generated with bit 1 and any tuple generated with bit 0
\* (from secrets t, s with e = g^t * h^s) give the same answer to the check
\* "the pair (Z1, Z2) satisfies the first verification equation" and to the
\* check "the pair (W, V) satisfies the second verification equation".
C13_BranchHidden ==
    (Generated /\ ValidGroup(zkParams) /\ zkIn.b = 1)
        => \A t0, s0, d0 \in ScalarSet(zkParams.Q), rnd0 \in RndSet(zkParams.Q) :
              EijOf(zkParams, t0, s0, 0) = zkIn.e
                 => LET a   == Commitments(zkParams, zkIn.e, 0, rnd0)
                        key == HashInput(zkParams, zkIn.C, zkIn.e, a.a1, a.a2, zkIn.pos)
                        orc == Hashed(oracle, key, d0)
                        other == GenerateZKProofEij(orc, zkParams, zkIn.C, zkIn.e,
                                                    t0, s0, 0, zkIn.pos, rnd0)
                    IN other.err = NoError
                          => /\ Equation1(zkParams, zkIn.e, other.proof)
                                   = Equation1(zkParams, zkIn.e, zkOut.proof)
                             /\ Equation2(zkParams, zkIn.e, other.proof)
                                   = Equation2(zkParams, zkIn.e, zkOut.proof)

(***************************************************************************)
(* Properties of the utility functions (checked under SpecUtil).           *)
(***************************************************************************)
\* the bits are the binary expansion of v on len digits, most significant
\* first (v below 2^SmallBits: the digits of higher weight are 0)
RECURSIVE Expansion(_, _, _)
Expansion(bits, len, k) ==
    IF k >= len THEN 0
    ELSE (IF len - 1 - k < SmallBits THEN bits[k] * Pow2(len - 1 - k) ELSE 0)
            + Expansion(bits, len, k + 1)

IsExpansion(bits, len, v) ==
    /\ DOMAIN bits = 0..(len - 1)
    /\ \A i \in DOMAIN bits : bits[i] \in {0, 1}
    /\ \A i \in DOMAIN bits : len - 1 - i >= SmallBits => bits[i] = 0
    /\ Expansion(bits, len, 0) = v

\* the int of the caller fits len bits: 0 <= v < 2^len
Fits(v, len) == 0 <= v /\ (len < SmallBits => v < Pow2(len))

\* IntToBits then BitsToInt on an int that fits
IntRoundTrip ==
    conv.origin = "int" /\ Fits(conv.value0, conv.len)
        => /\ conv.steps >= 1 => IsExpansion(conv.bits, conv.len, conv.value0)
           /\ conv.steps = 2 => conv.word = ToWord(conv.value0)

\* BitsToInt then IntToBits on a 0/1 sequence
BitsRoundTrip == (conv.origin = "bits" /\ conv.steps = 2) => conv.bits = conv.bits0

\* C15 (as stated): IntToBits(v, L) is the L-bit expansion of v, most
\* significant bit first, and BitsToInt(IntToBits(v, L)) = v whenever
\* 0 <= v < 2^L; IntToBits(BitsToInt(bits), len(bits)) = bits for every 0/1
\* sequence bits.
C15_BitsRoundTrip == IntRoundTrip /\ BitsRoundTrip

\* C15 (amended): the same, the second round trip for the 0/1 sequences no
\* longer than an int is wide.
C15_BitsRoundTripWithinInt ==
    /\ IntRoundTrip
    /\ LenOf(conv.bits0) <= IntBits => BitsRoundTrip

\* both round trips at the width of int: a sequence of IntBits bits that
\* starts with 1 came back unchanged
C15_Witness ==
    /\ conv.origin = "bits" /\ conv.steps = 2
    /\ LenOf(conv.bits0) = IntBits
    /\ conv.bits0[0] = 1 /\ conv.bits0[1] = 0
    /\ conv.bits = conv.bits0

\* b has an inverse modulo mod
Invertible(b, mod) == \E x \in 0..(mod - 1) : (b * x) % mod = 1

\* C16: a call DivMod(a, b, mod) panics when b has no inverse modulo mod and
\* returns no value then; otherwise it returns the one c in [0, mod) with
\* c * b congruent to a modulo mod.
C16_DivModInverseOrPanic ==
    div.pc \in {"returned", "panic"}
        => IF Invertible(div.b, div.mod)
           THEN /\ div.pc = "returned"
                /\ div.result \in 0..(div.mod - 1)
                /\ \A c \in 0..(div.mod - 1) :
                      (c * div.b) % div.mod = div.a % div.mod <=> c = div.result
           ELSE div.pc = "panic" /\ div.result = Nil

\* a panic on a divisor that is not 0 but shares a factor with the modulus
C16_Witness ==
    /\ div.pc = "panic"
    /\ div.b % div.mod # 0
    /\ div.a % div.mod # 0

(***************************************************************************)
(* Properties of the contract (checked under SpecAuction).                 *)
(***************************************************************************)
\* the number of transfers of a call that pay amount to account
TransfersTo(transfers, account, amount) ==
    Cardinality({i \in DOMAIN transfers :
                    transfers[i].to = account /\ transfers[i].value = amount})

\* the transfers of a successful refundLosers: one of deposit to every joined
\* bidder but the winner, and no other
RefundPayout ==
    (tx.fn = "refundLosers" /\ tx.ok)
        => /\ \A b \in auction.joined \ {auction.winner} :
                 TransfersTo(tx.transfers, b, auction.deposit) = 1
           /\ Cardinality(DOMAIN tx.transfers)
                 = Cardinality(auction.joined \ {auction.winner})
           /\ \A i \in DOMAIN tx.transfers : tx.transfers[i].to # auction.winner

\* the transfers of a successful finalize: deposit to the purchaser, then
\* deposit + clearingPrice to the winner, and no other
FinalizePayout ==
    (tx.fn = "finalize" /\ tx.ok)
        => /\ DOMAIN tx.transfers = 0..1
           /\ tx.transfers[0] = [to |-> auction.purchaser, value |-> auction.deposit]
           /\ tx.transfers[1] = [to |-> auction.winner,
                                 value |-> auction.deposit + auction.clearingPrice]

\* C17: a successful refundLosers transfers exactly deposit to every joined
\* bidder other than the winner and nothing to the winner; a successful
\* finalize transfers exactly deposit to the purchaser and exactly
\* deposit + clearingPrice to the winner.
C17_Payouts == RefundPayout /\ FinalizePayout

\* an auction of two bidders was finalized: the loser had its deposit back,
\* the winner is paid a clearing price that is not 0
C17_Witness ==
    /\ tx.fn = "finalize" /\ tx.ok
    /\ Cardinality(auction.joined) = 2
    /\ auction.clearingPrice > 0

\* C18: addBidder succeeds only when the caller is whitelisted, has not
\* joined before, sends exactly deposit, passes X and S arrays of length
\* BIT_LENGTH and the auction has not ended; a call that reverts leaves
\* joinedList, joined, bidderIndex, commitments, publicXs and publicSs
\* unchanged.
C18_AddBidderGuards ==
    [][tx'.fn = "addBidder"
          => IF tx'.ok
             THEN /\ tx'.sender \in auction.whitelisted
                  /\ tx'.sender \notin auction.joined
                  /\ tx'.value = auction.deposit
                  /\ tx'.lenX = BIT_LENGTH /\ tx'.lenS = BIT_LENGTH
                  /\ ~auction.auctionEnded
             ELSE /\ auction'.joinedList = auction.joinedList
                  /\ auction'.joined = auction.joined
                  /\ auction'.bidderIndex = auction.bidderIndex
                  /\ auction'.commitments = auction.commitments
                  /\ auction'.publicXs = auction.publicXs
                  /\ auction'.publicSs = auction.publicSs]_vars

\* a call of addBidder reverted after another one had registered a bidder
C18_Witness ==
    /\ tx.fn = "addBidder" /\ ~tx.ok
    /\ auction.joined # {}

\* C19: winner is set only by a declareWinner of a joined caller whose stored
\* commitment is pedersenCommit(clearingPrice, randomness) for the
\* clearingPrice at that call, and only while it is the zero address: once
\* set it never changes.
C19_WinnerSetOnce ==
    [][auction'.winner # auction.winner
          => /\ auction.winner = NoAddress
             /\ tx'.fn = "declareWinner" /\ tx'.ok
             /\ auction'.winner = tx'.sender
             /\ tx'.sender \in auction.joined
             /\ auction.clearingPrice < AuctionQ /\ tx'.arg < AuctionQ
             /\ auction.commitments[auction.bidderIndex[tx'.sender]]
                   = pedersenCommit(auction.clearingPrice, tx'.arg)]_vars

\* a second declareWinner reverted: the winner declared is still the winner
C19_Witness ==
    /\ tx.fn = "declareWinner" /\ ~tx.ok
    /\ auction.winner # NoAddress
    /\ Cardinality(auction.joined) = 2

\* C20: refundLosers succeeds at most once and only after a winner has been
\* declared; finalize succeeds at most once and only after refundLosers has
\* succeeded; after finalize has succeeded every later call reverts.
C20_PhaseOrder ==
    [][/\ (tx'.fn = "refundLosers" /\ tx'.ok)
            => /\ auction.winner # NoAddress
               /\ ~auction.isRefunded /\ auction'.isRefunded
       /\ (tx'.fn = "finalize" /\ tx'.ok)
            => /\ auction.isRefunded
               /\ ~auction.auctionEnded /\ auction'.auctionEnded
       /\ auction'.isRefunded
            => auction.isRefunded \/ (tx'.fn = "refundLosers" /\ tx'.ok)
       /\ auction'.auctionEnded
            => auction.auctionEnded \/ (tx'.fn = "finalize" /\ tx'.ok)
       /\ auction.isRefunded => auction'.isRefunded
       /\ auction.auctionEnded
            => ~tx'.ok /\ auction' = auction /\ balance' = balance]_vars

\* a call reverted after finalize had succeeded
C20_Witness ==
    /\ auction.auctionEnded
    /\ ~tx.ok

(***************************************************************************)
(* Properties of the rounds of the engine (checked under Spec).            *)
(***************************************************************************)
\* a step of the round loop that completed round j
RoundStep == pc = "rounds" /\ j < bitLength /\ j' = j + 1

\* some participant that is not lost has bit 0 at position col
ActiveZero(bs, col) ==
    \E i \in DOMAIN bs : ~bs[i].IsLost /\ bs[i].BinaryBid[col] = 0

RECURSIVE XProduct(_, _, _)
\* the product of T_i[col]^(x_i,col) over the participants 0..n-1, modulo p
XProduct(bs, col, n) ==
    IF n = 0 THEN 1
    ELSE (XProduct(bs, col, n - 1)
            * ModExp(bs[n - 1].Ti[col], bs[n - 1].PrivateBitPairs[col].X, EngineP))
         % EngineP

\* C21: telescoping cancellation: in every round the product of the terms
\* T_i[j]^(x_ij) of all n >= 1 participants is 1 modulo p, whatever the
\* secrets; a round in which no participant that is not lost has bit 0 at j
\* publishes only such terms and sets clearingPriceBits[j] = 1.
C21_Telescoping ==
    [][RoundStep
          => /\ XProduct(bidders, j, NumBids) = 1
             /\ ~ActiveZero(bidders, j) => clearingPriceBits'[j] = 1]_vars

\* a round of two or more participants, not every T_i equal to 1, a lost
\* participant holding bit 0, decided 1
C21_Witness ==
    /\ pc = "rounds" /\ j >= 1 /\ NumBids >= 2
    /\ clearingPriceBits[j - 1] = 1
    /\ ~ActiveZero(bidders, j - 1)
    /\ \E i \in DOMAIN bidders : bidders[i].IsLost /\ bidders[i].BinaryBid[j - 1] = 0
    /\ \E i \in DOMAIN bidders : bidders[i].Ti[j - 1] # 1

\* C22: round decision rule: round j sets clearingPriceBits[j] to 0 if and
\* only if some participant that is not lost at the start of the round has
\* bit 0 at position j, and to 1 if and only if none has, whatever the secrets.
C22_RoundDecisionRule ==
    [][RoundStep
          => /\ clearingPriceBits'[j] = 0 <=> ActiveZero(bidders, j)
             /\ clearingPriceBits'[j] = 1 <=> ~ActiveZero(bidders, j)]_vars

\* C23: elimination step: a round that sets clearingPriceBits[j] = 0 leaves
\* lost exactly the participants that were lost before or have bit 1 at j
\* (no participant with bit 0 at j changes its IsLost); a round that sets
\* clearingPriceBits[j] = 1 changes no IsLost.
C23_EliminationStep ==
    [][RoundStep
          => /\ DOMAIN bidders' = DOMAIN bidders
             /\ IF clearingPriceBits'[j] = 0
                THEN \A i \in DOMAIN bidders :
                        bidders'[i].IsLost
                           <=> (bidders[i].IsLost \/ bidders[i].BinaryBid[j] = 1)
                ELSE \A i \in DOMAIN bidders :
                        bidders'[i].IsLost = bidders[i].IsLost]_vars

\* a round decided 0: a participant with bit 1 there is lost, one with bit 0
\* is still not lost, and one lost before holds bit 0 there
C23_Witness ==
    /\ pc = "rounds" /\ j >= 2
    /\ clearingPriceBits[j - 1] = 0
    /\ \E i \in DOMAIN bidders : bidders[i].IsLost /\ bidders[i].BinaryBid[j - 1] = 1
    /\ \E i \in DOMAIN bidders : ~bidders[i].IsLost /\ bidders[i].BinaryBid[j - 1] = 0
    /\ \E i \in DOMAIN bidders :
          /\ bidders[i].IsLost /\ bidders[i].BinaryBid[j - 1] = 0
          /\ bidders[i].BinaryBid[0] = 1

RECURSIVE KeyProduct(_, _, _, _)
\* the product of X[k][col] for lo <= k < hi modulo p, 1 when empty
KeyProduct(bs, col, lo, hi) ==
    IF lo >= hi THEN 1
    ELSE (bs[lo].PublicBitPairs[col].X * KeyProduct(bs, col, lo + 1, hi)) % EngineP

RECURSIVE SecretSum(_, _, _, _)
\* the sum of x_k,col for lo <= k < hi modulo q
SecretSum(bs, col, lo, hi) ==
    IF lo >= hi THEN 0
    ELSE (bs[lo].PrivateBitPairs[col].X + SecretSum(bs, col, lo + 1, hi)) % EngineQ

\* C25: ComputeTi sets Ti[j] of participant i to the product of X[k][j],
\* k < i, times the inverse modulo p of the product of X[k][j], k > i (an
\* empty product is 1); in the exponent of g: the sum of x_kj, k < i, minus
\* the sum of x_kj, k > i, modulo q.
C25_ComputeTi ==
    [][(pc = "constructed" /\ pc' = "rounds")
          => \A i \in DOMAIN bidders : \A col \in 0..(bitLength - 1) :
                LET T == bidders'[i].Ti[col]
                IN /\ bidders[i].ID = i /\ bidders[i].N = NumBids
                   /\ T \in 0..(EngineP - 1)
                   /\ (T * KeyProduct(bidders, col, i + 1, NumBids)) % EngineP
                         = KeyProduct(bidders, col, 0, i)
                   /\ T = ModExp(EngineG,
                                 (SecretSum(bidders, col, 0, i) + EngineQ
                                    - SecretSum(bidders, col, i + 1, NumBids)) % EngineQ,
                                 EngineP)]_vars

\* three participants: the middle one divides a product that is not 1 by a
\* product that is not 1
C25_Witness ==
    /\ pc = "rounds" /\ NumBids = 3
    /\ bidders[0].PublicBitPairs[0].X # 1
    /\ bidders[2].PublicBitPairs[0].X # 1
    /\ bidders[1].Ti[0] # 1

\* C28: on the values NewBidder generates (every X_kj = g^(x_kj) mod p with
\* x_kj in [0, q)), no division of ComputeTi has a divisor without inverse:
\* the call goes on to the rounds with every Ti[j] computed.
C28_DivisionNeverPanics ==
    [][(pc = "constructed" /\ NumBids >= 1)
          => /\ pc' = "rounds"
             /\ \A i \in DOMAIN bidders' : \A col \in 0..(bitLength - 1) :
                   /\ bidders'[i].Ti[col] # Nil
                   /\ KeyProduct(bidders, col, i + 1, NumBids) # 0]_vars

\* ComputeTi divided by a product of two keys that is not 1
C28_Witness ==
    /\ pc = "rounds" /\ NumBids = 3
    /\ KeyProduct(bidders, 0, 1, 3) # 1
    /\ bidders[1].PublicBitPairs[0].X # 1
    /\ bidders[2].PublicBitPairs[0].X # 1

(***************************************************************************)
(* Properties of a whole run (checked under SpecLong).                     *)
(***************************************************************************)
\* the word of the value written by the bits, most significant first
MsbFirstWord(bits, len) ==
    [k \in 0..(IntBits - 1) |-> IF k < len THEN bits[len - 1 - k] ELSE 0]

\* that value is below 2^(IntBits - 1): an int holds it
ValueFits(bits, len) ==
    \A i \in 0..(len - 1) : len - 1 - i >= IntBits - 1 => bits[i] = 0

\* C26: the rounds process the positions 0, 1, ..., L-1 in this order, each
\* exactly once and never going back: j moves by steps of 1 from 0 to L, the
\* round at j writes position j only, the loop is left at j = L only; the
\* integer returned is the value of the L decided bits read most
\* significant first.
C26_RoundsInOrder ==
    [][/\ j' # j => (pc = "rounds" /\ j < bitLength /\ j' = j + 1)
       /\ (pc = "rounds" /\ clearingPriceBits' # clearingPriceBits)
             => /\ j' = j + 1
                /\ \A k \in 0..(bitLength - 1) :
                      k # j => clearingPriceBits'[k] = clearingPriceBits[k]
       /\ pc = "rounds" => pc' \in {"rounds", "done"}
       /\ (pc = "rounds" /\ pc' = "done")
             => /\ j = bitLength
                /\ ValueFits(clearingPriceBits, bitLength)
                /\ ret' = FromWord(MsbFirstWord(clearingPriceBits, bitLength))]_vars

\* every bid fits the bit length (bids are below 2^SmallBits)
BidsFit == \A i \in DOMAIN bids : Fits(bids[i], bitLength)

\* C29: for n >= 1 participants and L >= 1 with all bids below 2^L the call
\* ends normally after exactly L rounds: no runtime failure, and a return
\* with j = L.
C29_TerminatesAfterLRounds ==
    (NumBids >= 1 /\ bitLength >= 1 /\ BidsFit)
        => /\ pc # "panic"
           /\ pc = "done" => j = bitLength

(***************************************************************************)
(* Properties of HasZeroAtBitPosition step by step (checked under          *)
(* SpecSteps).                                                             *)
(***************************************************************************)
\* T^s for a participant with bit 0 that is not lost, T^x otherwise
TermOf(b, col, bit, lost) ==
    IF bit = 0 /\ ~lost
    THEN ModExp(b.Ti[col], b.PrivateBitPairs[col].S, EngineP)
    ELSE ModExp(b.Ti[col], b.PrivateBitPairs[col].X, EngineP)

RECURSIVE Aggregate(_, _, _, _, _)
\* the product of the terms of the participants 0..n-1 whose bits at col are
\* bitOf and whose flags are lost
Aggregate(bs, col, bitOf, lost, n) ==
    IF n = 0 THEN 1
    ELSE (Aggregate(bs, col, bitOf, lost, n - 1)
            * TermOf(bs[n - 1], col, bitOf[n - 1], lost[n - 1])) % EngineP

\* C24: in round j participant i publishes T_i[j]^(s_ij) exactly when its bit
\* at j is 0 and it was not lost when the round started, and T_i[j]^(x_ij) in
\* every other case; the aggregate of the round is the same whatever the
\* bits of the participants lost at its start.
C24_TermSelection ==
    /\ \A i \in DOMAIN hz.terms :
          hz.terms[i] = TermOf(bidders[i], j, bidders[i].BinaryBid[j], hz.flags0[i])
    /\ hz.pc \in {"eliminate", "return"}
          => \A bitOf \in [DOMAIN bidders -> {0, 1}] :
                (\A i \in DOMAIN bidders : ~hz.flags0[i] => bitOf[i] = bidders[i].BinaryBid[j])
                   => hz.eProduct = Aggregate(bidders, j, bitOf, hz.flags0, NumBids)

\* all terms of a round are in: a lost participant with bit 0 published a
\* term T^x that differs from its T^s, next to a participant that is not lost
\* with bit 0
C24_Witness ==
    /\ hz.pc \in {"eliminate", "return"}
    /\ \E i \in DOMAIN bidders :
          /\ hz.flags0[i] /\ bidders[i].BinaryBid[j] = 0
          /\ hz.terms[i] # TermOf(bidders[i], j, 0, FALSE)
    /\ \E i \in DOMAIN bidders : ~hz.flags0[i] /\ bidders[i].BinaryBid[j] = 0

\* C27: round barrier: while the terms of round j are computed and
\* multiplied the IsLost flags are those of the start of the round; a flag is
\* written only when all n terms are in eProduct; the round is left, and
\* round j + 1 entered, only when every elimination of round j is applied.
C27_RoundBarrier ==
    [][/\ hz.pc = "terms"
            => \A i \in DOMAIN bidders : bidders[i].IsLost = hz.flags0[i]
       /\ (pc = "rounds" /\ bidders' # bidders)
            => /\ hz.pc = "eliminate"
               /\ DOMAIN hz.terms = 0..(NumBids - 1)
               /\ hz.eProduct = Aggregate(bidders, j, [i \in DOMAIN bidders |->
                                                         bidders[i].BinaryBid[j]],
                                          hz.flags0, NumBids)
       /\ (pc = "rounds" /\ j' # j)
            => /\ DOMAIN hz.terms = 0..(NumBids - 1)
               /\ hz.hasZero
                     => \A i \in DOMAIN bidders :
                           bidders[i].BinaryBid[j] = 1 => bidders[i].IsLost
       /\ (hz.pc = "idle" /\ hz'.pc = "terms")
            => hz'.flags0 = [i \in DOMAIN bidders |-> bidders[i].IsLost]]_vars

\* the second round of three participants is being computed after a first
\* round that eliminated one of them
C27_Witness ==
    /\ hz.pc = "terms" /\ hz.i = 2 /\ j = 1 /\ NumBids = 3
    /\ clearingPriceBits[0] = 0
    /\ \E i \in DOMAIN bidders : hz.flags0[i]
    /\ \E i \in DOMAIN bidders : ~hz.flags0[i] /\ bidders[i].BinaryBid[1] = 0

(***************************************************************************)
(* Properties of the verifier (checked under SpecZK).                      *)
(***************************************************************************)
\* (C1 + C2) mod q is the challenge recomputed from the values verified
ChallengeHolds ==
    (zkOut.proof.C1 + zkOut.proof.C2) % zkParams.Q
        = oracle[HashInput(zkParams, zkIn.C, zkVerify.e,
                           zkOut.proof.A1, zkOut.proof.A2, zkVerify.pos)] % zkParams.Q

\* g^Z1 * h^Z2 = A1 * e^C1 mod p
FirstEquationHolds ==
    (ModExp(zkParams.G, zkOut.proof.Z1, zkParams.P)
        * ModExp(zkParams.H, zkOut.proof.Z2, zkParams.P)) % zkParams.P
      = (zkOut.proof.A1 * ModExp(zkVerify.e, zkOut.proof.C1, zkParams.P)) % zkParams.P

\* g^W * h^V = A2 * (e * g^-1)^C2 mod p
SecondEquationHolds ==
    (ModExp(zkParams.G, zkOut.proof.W, zkParams.P)
        * ModExp(zkParams.H, zkOut.proof.V, zkParams.P)) % zkParams.P
      = (zkOut.proof.A2
           * ModExp((zkVerify.e * ModInverse(zkParams.G, zkParams.P)) % zkParams.P,
                    zkOut.proof.C2, zkParams.P)) % zkParams.P

\* C30: VerifyZKProofEij returns true if and only if the three checks hold:
\* (C1 + C2) mod q is the challenge recomputed from (g, h, commitment, e, A1,
\* A2, position), g^Z1 * h^Z2 = A1 * e^C1 mod p, and g^W * h^V =
\* A2 * (e * g^-1)^C2 mod p; when a check fails the result is false, a
\* boolean, never an error.
C30_VerifyIffThreeChecks ==
    Verified
        => /\ zkVerify.ok \in BOOLEAN
           /\ zkVerify.ok
                 <=> (ChallengeHolds /\ FirstEquationHolds /\ SecondEquationHolds)

\* a proof refused by the third check alone
C30_Witness ==
    /\ Verified
    /\ ChallengeHolds /\ FirstEquationHolds /\ ~SecondEquationHolds
    /\ ~zkVerify.ok

(***************************************************************************)
(* Properties of the Fiat-Shamir challenge (checked under SpecZK).         *)
(***************************************************************************)
\* the challenge of the proof at hand, computed from the generator's inputs
GeneratorChallenge ==
    computeChallenge(oracle, zkParams, zkIn.C, zkIn.e,
                     zkOut.proof.A1, zkOut.proof.A2, zkIn.pos)

\* the verifier was handed the value and the position the proof was made for
Unmodified == Verified /\ zkVerify.e = zkIn.e /\ zkVerify.pos = zkIn.pos

\* C31: the challenge is a function of (g, h, commitment, e, a1, a2,
\* position) only and lies in [0, q): once a proof is generated, for bit 0
\* and for bit 1, (C1 + C2) mod q is the challenge computed from the
\* generator's inputs, and the challenge the verifier recomputes for the
\* unmodified proof, value, commitment and position is that same value.
C31_ChallengeIsAFunction ==
    /\ Generated
          => LET c == GeneratorChallenge
             IN /\ c \in 0..(zkParams.Q - 1)
                /\ (zkOut.proof.C1 + zkOut.proof.C2) % zkParams.Q = c
    /\ Unmodified
          => ChallengeCheck(oracle, zkParams, zkIn.C, zkVerify.e,
                            zkOut.proof, zkVerify.pos)

\* an unmodified bit-1 proof whose challenge is not 0 has been verified
C31_Witness ==
    /\ Unmodified
    /\ zkIn.b = 1
    /\ GeneratorChallenge # 0
    /\ zkOut.proof.C1 # 0

(***************************************************************************)
(* Properties of the returned price and of the active set (Spec,           *)
(* SpecSteps).                                                             *)
(***************************************************************************)
\* C32: for every non-empty bid list and every choice of secrets, the value
\* returned by DetermineClearingPrice is never smaller than min(bids).
C32_NeverBelowMin ==
    (Returned /\ NumBids >= 1) => ret >= MinOf(bids, NumBids)

\* C33: in every state reached during a run of DetermineClearingPrice with
\* n >= 1, at least one participant has IsLost = false: no round eliminates
\* all remaining active participants.
C33_SomeoneStaysActive ==
    (pc # "start" /\ NumBids >= 1)
        => \E i \in DOMAIN bidders : ~bidders[i].IsLost

\* the second loop is under way in the last round, two of three participants
\* are lost already and the third has bit 0
C33_Witness ==
    /\ hz.pc = "eliminate" /\ NumBids = 3 /\ j = bitLength - 1 /\ j >= 1
    /\ Cardinality({i \in DOMAIN bidders : bidders[i].IsLost}) = 2
    /\ \E i \in DOMAIN bidders : ~bidders[i].IsLost /\ bidders[i].BinaryBid[j] = 0

(***************************************************************************)
(* Properties of the bit submissions of the contract (checked under        *)
(* SpecBits).                                                              *)
(***************************************************************************)
\* a successful submitBitCommitment
SubmitStep == tx'.fn = "submitBitCommitment" /\ tx'.ok

\* the position it was called with
SubmitPosition == tx'.lenX

EntriesBefore == Cardinality(DOMAIN auction.clearingPriceBits)

EntriesAfter == Cardinality(DOMAIN auction'.clearingPriceBits)

\* a successful submitBitCommitment that appends to clearingPriceBits
AppendStep == SubmitStep /\ EntriesAfter = EntriesBefore + 1

\* C34: submitBitCommitment appends the bit of a position j to
\* clearingPriceBits only when each of the N whitelisted bidders has
\* submitted exactly one commitment for j (and nobody else has), so that the
\* product tested holds every bidder's term once and none twice.
C34_AggregationBarrier ==
    [][AppendStep
         => \A a \in Accounts :
               ledger'.by[SubmitPosition][a]
                  = IF a \in auction.whitelisted THEN 1 ELSE 0]_vars

\* C35: the k-th entry appended to clearingPriceBits is the decided bit of
\* bit position k, so the bit of position j+1 is never decided before the
\* bit of position j, and a bitPosition outside 0..BIT_LENGTH-1 never
\* contributes an entry.
C35_RoundOrder ==
    [][AppendStep
         => /\ SubmitPosition = EntriesBefore
            /\ SubmitPosition \in 0..(BIT_LENGTH - 1)]_vars

RECURSIVE MsbFirstValue(_, _)
\* the integer whose binary digits, most significant first, are bits[0..k-1]
MsbFirstValue(bits, k) ==
    IF k = 0 THEN 0 ELSE 2 * MsbFirstValue(bits, k - 1) + bits[k - 1]

\* C36: when the N-th commitment for a position arrives, submitBitCommitment
\* appends 1 if the product modulo P of the commitments submitted for that
\* position is 1 and appends 0 otherwise; when clearingPriceBits reaches
\* BIT_LENGTH entries, clearingPrice is set to their most-significant-first
\* integer value.
C36_DecidedBitAndPrice ==
    [][/\ (SubmitStep /\ auction'.bitCommitCounts[SubmitPosition] = auction.N)
            => /\ EntriesAfter = EntriesBefore + 1
               /\ auction'.clearingPriceBits[EntriesBefore]
                     = IF ledger'.prod[SubmitPosition] = 1 THEN 1 ELSE 0
       /\ (AppendStep /\ EntriesAfter = BIT_LENGTH)
            => auction'.clearingPrice
                  = MsbFirstValue(auction'.clearingPriceBits, BIT_LENGTH)]_vars

\* C37: once a winner has been declared, clearingPrice never changes again,
\* so that the amount refundLosers requires and the amount finalize pays are
\* the clearing price the winner's commitment was checked against.
C37_PriceFixedOnceWinner ==
    [][auction.winner # NoAddress
         => auction'.clearingPrice = auction.clearingPrice]_vars

(***************************************************************************)
(* Properties of the funds of the contract (checked under SpecAuction and  *)
(* SpecAuctionFair).                                                       *)
(***************************************************************************)
\* C38: after finalize succeeded the contract holds no funds (the
\* purchaser's deposit, one deposit per joined bidder and the clearing price
\* sent with refundLosers have all been paid out), and every bidder that ever
\* joined and is not the winner has received its deposit back exactly once.
C38_FundsConserved ==
    auction.auctionEnded
        => /\ balance = 0
           /\ \A a \in auction.joined \ {auction.winner} : ledger.refunds[a] = 1

\* C39: once a winner has been declared the purchaser can always bring the
\* auction to its end: refundLosers sent with value clearingPrice, followed
\* by finalize, eventually succeed and set auctionEnded, whatever the other
\* accounts do, rejecting a transfer included.
C39_PurchaserCanEnd ==
    (auction.winner # NoAddress) ~> auction.auctionEnded

====
